------------------------------- MODULE Progress -------------------------------
(***************************************************************************)
(* The playback position the host shows: the sender's rare progress lines  *)
(* (set_progress in session.rs) and the reports the playback thread makes  *)
(* from the audio itself (Position and extent in player.rs), through the   *)
(* track anchor the two share under a lock.                                *)
(***************************************************************************)
EXTENDS Naturals

CONSTANTS Space,     \* number of RTP timestamps: 2^32 in the code
          Rate,      \* frames in a second, fewer than there are timestamps
          MaxTotal,  \* bound: frames in a track
          Starts,    \* where a track may start
          Nothing

ASSUME ProgressAssumption ==
    /\ Space \in Nat \ {0} /\ Rate \in 1..(Space - 1)
    /\ MaxTotal \in 1..(Space - 1)
    /\ Starts \subseteq 0..(Space - 1)
    /\ Nothing \notin [start : Nat, end : Nat] \cup [elapsed : Nat, duration : Nat]

Stamps == 0..(Space - 1)

VARIABLES
    track,     \* Session::track, shared with the thread
    line,      \* what set_progress is about to send
    ts,        \* the frame the thread is at
    played,    \* the thread in played: "idle" or "report"
    copy,      \* its copy of the anchor
    reported,  \* Position::reported
    shown,     \* the last Progress the host received
    since      \* history: consecutive frames played inside the track since the
               \* last progress line or jump of the audio (at most Rate + 1)

progressVars == <<track, line, ts, played, copy, reported, shown, since>>

ProgressInit ==
    /\ track = Nothing /\ line = Nothing
    /\ ts = 0 /\ played = "idle" /\ copy = Nothing
    /\ reported = Nothing /\ shown = Nothing /\ since = 0

wrapping_add(a, b) == (a + b) % Space
wrapping_sub(a, b) == (a + Space - b) % Space
saturating_sub(a, b) == IF a < b THEN 0 ELSE a - b

\* Mutant: the subtraction stops at zero, as the one of set_progress does.
ExtentSaturates(t, at) ==
    IF saturating_sub(at, t.start) > saturating_sub(t.end, t.start)
    THEN Nothing
    ELSE [elapsed |-> saturating_sub(at, t.start) \div Rate,
          duration |-> saturating_sub(t.end, t.start)]

\* The position of the timestamp in the track t, in whole seconds, and the
\* length of t; Nothing outside of it.
extent(t, at) ==
    IF wrapping_sub(at, t.start) > wrapping_sub(t.end, t.start)
    THEN Nothing
    ELSE [elapsed |-> wrapping_sub(at, t.start) \div Rate,
          duration |-> wrapping_sub(t.end, t.start)]

------------------------------------------------------------------------------
(* set_progress, on a connection's task: the anchor first, then the event.  *)

SetTrack(start, total, current) ==
    LET end == wrapping_add(start, total)
    IN  /\ line = Nothing
        /\ track' = [start |-> start, end |-> end]
        /\ line' = [elapsed |-> saturating_sub(current, start) \div Rate,
                    duration |-> saturating_sub(end, start)]
        /\ UNCHANGED <<ts, played, copy, reported, shown, since>>

SendProgress ==
    /\ line # Nothing
    /\ shown' = line
    /\ line' = Nothing
    /\ since' = 0
    /\ UNCHANGED <<track, ts, played, copy, reported>>

------------------------------------------------------------------------------
(* The playback thread. *)

Counted == IF line = Nothing /\ extent(track, ts) # Nothing
           THEN IF since > Rate THEN since ELSE since + 1
           ELSE 0

\* The frame at ts was written; the anchor is copied under its lock.
CopyTrack ==
    /\ played = "idle"
    /\ track # Nothing
    /\ copy' = track
    /\ since' = Counted
    /\ played' = "report"
    /\ UNCHANGED <<track, line, ts, reported, shown>>

\* Is it a second that was not reported last?
News(position) == position.elapsed # reported

\* One report per second, made without the lock.  The next frame follows.
Report ==
    /\ played = "report"
    /\ LET position == extent(copy, ts)
           told == IF position = Nothing THEN FALSE ELSE News(position)
       IN  /\ reported' = IF told THEN position.elapsed ELSE reported
           /\ shown' = IF told THEN position ELSE shown
    /\ copy' = Nothing
    /\ ts' = wrapping_add(ts, 1)
    /\ played' = "idle"
    /\ UNCHANGED <<track, line, since>>

\* There are no reports while the sender has not said where the track starts.
PlayUnanchored ==
    /\ played = "idle" /\ track = Nothing
    /\ ts' = wrapping_add(ts, 1)
    /\ UNCHANGED <<track, line, played, copy, reported, shown, since>>

\* A seek of the sender: the audio goes on elsewhere.
Jump(to) ==
    /\ played = "idle"
    /\ ts' = to
    /\ since' = 0
    /\ UNCHANGED <<track, line, played, copy, reported, shown>>

------------------------------------------------------------------------------
ProgressNext ==
    \/ \E start \in Starts, total \in 1..MaxTotal, current \in Stamps :
          SetTrack(start, total, current)
    \/ SendProgress
    \/ CopyTrack \/ Report \/ PlayUnanchored
    \/ \E to \in Starts : Jump(to)

ProgressSpec == ProgressInit /\ [][ProgressNext]_progressVars

------------------------------------------------------------------------------
\* The frame played last.
Last == wrapping_sub(ts, 1)

\* After a second of audio inside the track the host shows where the audio is
\* and how long the track is, whatever the progress line said, across the
\* wrap-around of the timestamps, and even if a report of the track before
\* overtook the line.
FollowsAudio ==
    (played = "idle" /\ line = Nothing /\ since > Rate) =>
        shown = extent(track, Last)
=============================================================================
