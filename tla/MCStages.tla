------------------------------- MODULE MCStages -------------------------------
(* The four machines that share no state, in one run: a behaviour is one    *)
(* of the ring, of the clock, of a playback thread or of the position, and  *)
(* the other three stay as they started.  The ring has 18 numbers, three    *)
(* laps; the clock's timestamps wrap around after two frames; a stream may  *)
(* be in every case; a second has 2 frames on a circle of 7 timestamps.     *)
EXTENDS JitterBuffer, ClockSync, PlaybackThread, Progress

VARIABLE part   \* the machine that moves

stagesVars == <<part, bufferVars, clockVars, vars, progressVars>>

StagesInit ==
    /\ BufferInit /\ ClockInit /\ Init /\ ProgressInit
    /\ part \in {"ring", "clock", "thread", "position"}
    /\ part # "thread" => case = [buildable |-> TRUE, resetup |-> FALSE, spare |-> TRUE]

InRing == part = "ring" /\ UNCHANGED <<part, clockVars, vars, progressVars>>
InClock == part = "clock" /\ UNCHANGED <<part, bufferVars, vars, progressVars>>
InThread == part = "thread" /\ UNCHANGED <<part, bufferVars, clockVars, progressVars>>
InPosition == part = "position" /\ UNCHANGED <<part, bufferVars, clockVars, vars>>

StagesNext ==
    \/ BufferNext /\ InRing
    \/ ClockNext /\ InClock
    \/ Next /\ InThread
    \/ ProgressNext /\ InPosition

\* The fairness of FairSpec of PlaybackThread.
StagesSpec ==
    /\ StagesInit /\ [][StagesNext]_stagesVars
    /\ WF_stagesVars(Thread /\ InThread)
    /\ WF_stagesVars(Joined /\ InThread)
    /\ WF_stagesVars(TaskGone /\ InThread)
=============================================================================
