---------------------------- MODULE PlaybackThread ----------------------------
(***************************************************************************)
(* The playback thread of one stream (player.rs): the command channel, the *)
(* prebuffer and the start gate in front of the sink, and the way the      *)
(* thread is stopped and joined when the Player is dropped.                *)
(*                                                                         *)
(* The audio task holds a sender of the channel of its own.  TEARDOWN and  *)
(* the end of a connection abort it before they drop the Player; a second  *)
(* SETUP drops the Player while the task still runs (session.rs).          *)
(***************************************************************************)
EXTENDS Option, Sequences

CONSTANTS Threshold,   \* prebuffer_packets
          MaxSent,     \* bound: commands the audio task sends
          Cases        \* the circumstances a stream may be in

\* Can a decoder be built from the ANNOUNCE parameters?  Is the Player replaced
\* by a second SETUP, or dropped after TEARDOWN or a disconnect?  Is a runtime
\* worker left while the handler blocks one in join?
AllCases == [buildable : BOOLEAN, resetup : BOOLEAN, spare : BOOLEAN]

ASSUME PlaybackAssumption ==
    /\ Threshold \in Nat \ {0} /\ MaxSent \in Nat
    /\ Cases \subseteq AllCases

\* What the audio task queues: a frame that decodes, one that does not, or
\* silence, each with its timestamp; a flush.
FrameKinds == {"frame", "undecodable", "silence"}
Commands == [kind : FrameKinds, ts : Nat] \cup [kind : {"flush", "stop"}]

VARIABLES
    case,      \* the circumstances, fixed
    queue,     \* the mpsc channel
    task,      \* the audio task: "running", "aborted" (not yet dropped) or "gone"
    drop,      \* Drop of Player: "no", "joining" or "done"
    stop,      \* the stop flag
    state,     \* the thread: "new", "recv", "wait" (for the start instant),
               \* "write", "drain" or "ended"
    prebuffer, \* Prebuffer::buffer; its length is Prebuffer::packets
    released,  \* Prebuffer::released
    started,   \* Playout::started
    first_ts,  \* Playout::first_ts
    chunk,     \* what feed is about to write
    heard,     \* what was written to the sink since its last flush
    taken,     \* history: the audible frames received since the last Flush
    sent       \* history: how many commands the task has sent

playout == <<prebuffer, released, started, first_ts, chunk, heard, taken>>
vars == <<case, queue, task, drop, stop, state, playout, sent>>

Init ==
    /\ case \in Cases
    /\ queue = <<>> /\ task = "running" /\ drop = "no" /\ stop = FALSE
    /\ state = "new"
    /\ prebuffer = <<>> /\ released = FALSE
    /\ started = FALSE /\ first_ts = None
    /\ chunk = <<>> /\ heard = <<>> /\ taken = <<>>
    /\ sent = 0

------------------------------------------------------------------------------
(* The audio task (AudioReceiver) and the session's side of the Player. *)

\* An aborted task still runs to its next await; a command for a thread that
\* ended goes nowhere.
TaskSends(command) ==
    /\ task # "gone" /\ sent < MaxSent
    /\ queue' = IF state = "ended" THEN queue ELSE Append(queue, command)
    /\ sent' = sent + 1
    /\ UNCHANGED <<case, task, drop, stop, state, playout>>

\* frame and silence of PlayerSender: timestamps follow each other.
TaskPlays == \E kind \in FrameKinds : TaskSends([kind |-> kind, ts |-> sent])

TaskFlushes == TaskSends([kind |-> "flush"])

\* Mutant: the thread is not woken.
DropUnheard ==
    /\ drop = "no" /\ (case.resetup \/ task # "running")
    /\ stop' = TRUE /\ drop' = "joining"
    /\ UNCHANGED <<case, queue, task, state, playout, sent>>

\* Drop of Player: the flag, an explicit Stop, the sender of its own; join.
DropPlayer ==
    /\ drop = "no" /\ (case.resetup \/ task # "running")
    /\ stop' = TRUE
    /\ queue' = Append(queue, [kind |-> "stop"])
    /\ drop' = "joining"
    /\ UNCHANGED <<case, task, state, playout, sent>>

Joined ==
    /\ drop = "joining" /\ state = "ended"
    /\ drop' = "done"
    /\ UNCHANGED <<case, queue, task, stop, state, playout, sent>>

\* TEARDOWN or the end of the connection: stop_tasks.
StopTasks ==
    /\ task = "running" /\ ~ case.resetup
    /\ task' = "aborted"
    /\ UNCHANGED <<case, queue, drop, stop, state, playout, sent>>

\* An aborted task is dropped, and its sender with it, when a worker picks it
\* up; after a second SETUP the task ends when its flush channel is replaced,
\* which comes after the join.
TaskGone ==
    /\ \/ task = "aborted" /\ (case.spare \/ drop # "joining")
       \/ task = "running" /\ case.resetup /\ drop = "done"
    /\ task' = "gone"
    /\ UNCHANGED <<case, queue, drop, stop, state, playout, sent>>

------------------------------------------------------------------------------
(* The thread. *)

\* run builds the decoder first.
Start ==
    /\ state = "new"
    /\ state' = IF case.buildable THEN "recv" ELSE "drain"
    /\ UNCHANGED <<case, queue, task, drop, stop, playout, sent>>

\* recv fails once no sender is left and nothing is queued.
Disconnected == queue = <<>> /\ drop # "no" /\ task = "gone"

Ends ==
    /\ state' = "ended"
    /\ queue' = <<>>
    /\ UNCHANGED <<case, task, drop, stop, playout, sent>>

\* drain: whatever is received is thrown away, Stop included.
Drain ==
    \/ /\ state = "drain" /\ queue # <<>>
       /\ queue' = Tail(queue)
       /\ UNCHANGED <<case, task, drop, stop, state, playout, sent>>
    \/ state = "drain" /\ Disconnected /\ Ends

\* Leaving run drops the receiver and the sink.
Quit ==
    /\ state = "recv"
    /\ \/ Disconnected
       \/ queue # <<>> /\ (stop \/ Head(queue).kind = "stop")
    /\ Ends

\* A received command is handled only while the stop flag is not set.
Receive(kinds) ==
    /\ state = "recv" /\ ~ stop
    /\ queue # <<>> /\ Head(queue).kind \in kinds
    /\ queue' = Tail(queue)
    /\ UNCHANGED <<case, task, drop, stop, sent>>

DropUndecodable ==
    /\ Receive({"undecodable"})
    /\ UNCHANGED <<state, playout>>

\* Does the prebuffer b, with the packet just pushed, pass the threshold?
Enough(b) == Len(b) >= Threshold

\* Playout::feed up to the write: the packet joins the prebuffer, or it is a
\* chunk of its own; the first chunk waits for its start instant.
Feed ==
    LET ts == Head(queue).ts
        pushed == Append(prebuffer, ts)
        chunked == released \/ Enough(pushed)
    IN  /\ Receive({"frame", "silence"})
        /\ taken' = Append(taken, ts)
        /\ first_ts' = IF ~ started /\ first_ts = None THEN ts ELSE first_ts
        /\ chunk' = IF released THEN <<ts>> ELSE IF chunked THEN pushed ELSE <<>>
        /\ prebuffer' = IF chunked THEN <<>> ELSE pushed
        /\ released' = chunked
        /\ started' = (started \/ chunked)
        /\ state' = IF ~ chunked THEN "recv" ELSE IF started THEN "write" ELSE "wait"
        /\ UNCHANGED heard

\* await_start_instant returns: the instant came, is past, is unknown, or the
\* wait was capped at 2 s.
Due ==
    /\ state = "wait"
    /\ state' = "write"
    /\ UNCHANGED <<case, queue, task, drop, stop, playout, sent>>

\* AudioSink::write returns.
Write ==
    /\ state = "write"
    /\ heard' = heard \o chunk
    /\ chunk' = <<>>
    /\ state' = "recv"
    /\ UNCHANGED <<case, queue, task, drop, stop, prebuffer, released, started, first_ts, taken, sent>>

\* Mutants: reset keeps what the prebuffer holds; it does not re-arm the
\* prebuffer; it keeps the timestamp of the first frame.
ResetKeepsBuffer ==
    /\ released' = FALSE /\ started' = FALSE /\ first_ts' = None
    /\ UNCHANGED prebuffer

ResetKeepsReleased ==
    /\ prebuffer' = <<>> /\ started' = FALSE /\ first_ts' = None
    /\ UNCHANGED released

ResetKeepsFirst ==
    /\ prebuffer' = <<>> /\ released' = FALSE /\ started' = FALSE
    /\ UNCHANGED first_ts

\* Playout::reset and Prebuffer::reset.
ResetPlayout == prebuffer' = <<>> /\ released' = FALSE /\ started' = FALSE /\ first_ts' = None

\* Flush: the playout is reset, then the sink drops what it queued.
Flush ==
    /\ Receive({"flush"})
    /\ ResetPlayout
    /\ heard' = <<>> /\ taken' = <<>>
    /\ UNCHANGED <<state, chunk>>

------------------------------------------------------------------------------
Thread == Start \/ Drain \/ Quit \/ DropUndecodable \/ Feed \/ Due \/ Write \/ Flush

Next ==
    \/ TaskPlays \/ TaskFlushes \/ StopTasks \/ TaskGone
    \/ DropPlayer \/ Joined
    \/ Thread

Spec == Init /\ [][Next]_vars

------------------------------------------------------------------------------
\* Every audible frame received since the last flush was heard, is about to
\* be, or waits in the prebuffer: each once, in order, and nothing older.
NothingLost == heard \o chunk \o prebuffer = taken

\* After a flush as after a start the sink hears nothing before the prebuffer
\* filled ("Drop buffered audio and re-arm the prebuffer (used on FLUSH)").
PrebufferFirst == heard # <<>> => Len(heard) >= Threshold

\* The instant that is awaited is the one of the frame that will be heard
\* first, although frames may be dropped as undecodable before it, and a
\* flush may come while the prebuffer fills.
StartsOnFirstFrame ==
    state = "wait" => /\ heard = <<>>
                      /\ first_ts = chunk[1] /\ first_ts = taken[1]

------------------------------------------------------------------------------
(* Liveness: the OS schedules the thread, and its waits and writes return; *)
(* a handler that drops a Player goes on; the runtime drops what it        *)
(* aborted.  Nothing obliges the audio task to send.                       *)
FairSpec == Spec /\ WF_vars(Thread) /\ WF_vars(Joined) /\ WF_vars(TaskGone)

\* Dropping the Player ends the thread and returns, whatever is queued and
\* even if the thread sits idle while the audio task holds a sender: with a
\* decoder always; without one, where the thread throws Stop away and ends
\* only when its channel closes, if the audio task is gone or was aborted and
\* a worker is left to drop it.  The exception is a thread without a decoder
\* that a second SETUP replaces, or whose join takes the last worker: there
\* the Drop may block for ever (see DropStopsThread of Sessions).
DropReturns ==
    drop = "joining" /\ (case.buildable \/ task = "gone" \/ (~ case.resetup /\ case.spare))
        ~> drop = "done"
=============================================================================
