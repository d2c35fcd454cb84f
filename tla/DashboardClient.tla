---------------------------- MODULE DashboardClient ----------------------------
(***************************************************************************)
(* A dashboard's connection to the receiver (client.rs): connecting again  *)
(* and again, with a delay that doubles, and telling the display.  The     *)
(* display, which takes the updates, is in Display.                        *)
(***************************************************************************)
EXTENDS Naturals, Sequences

CONSTANTS First,       \* FIRST_BACKOFF
          MaxBackoff,  \* MAX_BACKOFF
          MaxUpdates,  \* bound: updates the display has not taken
          Vanishes,    \* may the receiver's machine fail without closing its sockets?
          Messages     \* what a receiver may send

ASSUME ClientAssumption ==
    /\ First \in Nat \ {0} /\ MaxBackoff \in Nat /\ First <= MaxBackoff
    /\ MaxUpdates \in Nat \ {0} /\ Vanishes \in BOOLEAN

VARIABLES
    receiver,    \* is the receiver up?
    deaf,        \* did the receiver vanish under the connection?
    phase,       \* the task: "connecting", "up", "returned", "sleeping" or "done"
    result,      \* what session returned: "worked" (Ok(true)) or "error"
    backoff,
    updates,     \* the channel to the display
    display      \* is the display running?

clientVars == <<receiver, deaf, phase, result, backoff, updates, display>>

ClientInit ==
    /\ receiver \in BOOLEAN /\ deaf = FALSE
    /\ phase = "connecting" /\ result = "error"
    /\ backoff = First
    /\ updates = <<>> /\ display = TRUE

Updates == [type : {"Connected", "Disconnected"}] \cup [type : {"Message"}, message : Messages]

Update(type) == [type |-> type]

\* An update for a display that is gone ends the task.
Tell(update, next) ==
    /\ Len(updates) < MaxUpdates
    /\ updates' = IF display THEN Append(updates, update) ELSE updates
    /\ phase' = IF display THEN next ELSE "done"

------------------------------------------------------------------------------
(* session: one connection attempt. *)

Connect ==
    /\ phase = "connecting" /\ receiver
    /\ Tell(Update("Connected"), "up")
    /\ UNCHANGED <<receiver, deaf, result, backoff, display>>

\* The receiver may be up: the handshake fails, or a timeout, or the name is
\* not found.  (Bound: as Connect, when the channel has room.)
ConnectFails ==
    /\ phase = "connecting" /\ Len(updates) < MaxUpdates
    /\ phase' = "returned" /\ result' = "error"
    /\ UNCHANGED <<receiver, deaf, backoff, updates, display>>

Receive ==
    /\ phase = "up" /\ receiver /\ ~ deaf
    /\ \E m \in Messages : Tell([type |-> "Message", message |-> m], "up")
    /\ UNCHANGED <<receiver, deaf, result, backoff, display>>

\* The receiver closes the socket in an orderly way.
CloseFrame ==
    /\ phase = "up" /\ ~ deaf
    /\ phase' = "returned" /\ result' = "worked"
    /\ UNCHANGED <<receiver, deaf, backoff, updates, display>>

\* The connection breaks: the frame is an error, which session returns.
SocketError ==
    /\ phase = "up" /\ ~ deaf
    /\ phase' = "returned" /\ result' = "error"
    /\ UNCHANGED <<receiver, deaf, backoff, updates, display>>

------------------------------------------------------------------------------
(* run. *)

\* Mutant: the delay is not capped.
LongerUncapped(b) == 2 * b

Longer(b) == IF 2 * b < MaxBackoff THEN 2 * b ELSE MaxBackoff

\* Mutant: only an orderly close is reported.
RetryQuietly ==
    /\ phase = "returned"
    /\ IF result = "error" THEN phase' = "sleeping" /\ UNCHANGED updates
                           ELSE Tell(Update("Disconnected"), "sleeping")
    /\ backoff' = Longer(First)
    /\ UNCHANGED <<receiver, deaf, result, display>>

\* Mutant: an error ends the task.
RetryGivesUp ==
    /\ phase = "returned"
    /\ Tell(Update("Disconnected"), IF result = "worked" THEN "sleeping" ELSE "done")
    /\ backoff' = Longer(First)
    /\ UNCHANGED <<receiver, deaf, result, display>>

\* Only Ok(true) resets the delay; the next one is longer.
Retry ==
    LET delay == IF result = "worked" THEN First ELSE backoff
    IN  /\ phase = "returned"
        /\ Tell(Update("Disconnected"), "sleeping")
        /\ backoff' = Longer(delay)
        /\ UNCHANGED <<receiver, deaf, result, display>>

Wake ==
    /\ phase = "sleeping"
    /\ phase' = "connecting"
    /\ UNCHANGED <<receiver, deaf, result, backoff, updates, display>>

------------------------------------------------------------------------------
(* The receiver. *)

\* The receiver's process ends: its kernel closes the connection.
ReceiverStops ==
    /\ receiver /\ receiver' = FALSE
    /\ UNCHANGED <<deaf, phase, result, backoff, updates, display>>

\* Its machine fails: nothing more arrives, and the dashboard, which sends
\* nothing of its own, is told of no error.
ReceiverVanishes ==
    /\ Vanishes
    /\ receiver /\ receiver' = FALSE
    /\ deaf' = (phase = "up")
    /\ UNCHANGED <<phase, result, backoff, updates, display>>

\* A connection that was closed is noticed before the receiver is back.
ReceiverStarts ==
    /\ ~ receiver /\ receiver' = TRUE
    /\ phase = "up" => deaf
    /\ UNCHANGED <<deaf, phase, result, backoff, updates, display>>

\* The display takes an update: a part of its own step.
Take ==
    /\ display /\ updates # <<>>
    /\ updates' = Tail(updates)
    /\ UNCHANGED <<receiver, deaf, phase, result, backoff, display>>

Task == Connect \/ ConnectFails \/ Retry \/ Wake
Broken == ~ receiver /\ (CloseFrame \/ SocketError)

ClientNext ==
    \/ Task \/ Receive \/ CloseFrame \/ SocketError
    \/ ReceiverStops \/ ReceiverVanishes \/ ReceiverStarts
=============================================================================
