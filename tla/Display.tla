-------------------------------- MODULE Display --------------------------------
(***************************************************************************)
(* The dashboard's full-screen display (tui.rs and images.rs), fed by the  *)
(* client of DashboardClient: a loop that folds one update at a time into  *)
(* the state, draws the text through ratatui, and sends the picture to the *)
(* terminal by an escape sequence of its own when the one that should be   *)
(* there and the one it believes to be there differ.  A step is one turn   *)
(* of the loop, from the branch its select! takes to the next select!: it  *)
(* is nowhere else that the loop waits, and the first turn is in Init.     *)
(*                                                                         *)
(* The text is what kind of screen it is; the picture is its artwork and   *)
(* the box of cells the layout gives it.  What a terminal does with the    *)
(* escapes, and that ratatui clears it after a resize, is external.        *)
(***************************************************************************)
EXTENDS DashboardClient, NowPlaying

CONSTANTS Undecodable,  \* the artwork that is neither PNG nor a JPEG we can decode
          Sizes         \* what the terminal may be resized to: [w, h] in cells

ASSUME DisplayAssumption ==
    /\ Messages \subseteq Changes \cup Snapshots
    /\ Undecodable \subseteq Values /\ Values \subseteq Nat
    /\ Sizes # {} /\ Sizes \subseteq [w : Nat, h : Nat]

VARIABLES
    images,      \* the terminal's protocol: "Kitty", "ITerm2" or "None"
    connection,  \* "Connecting", "Connected" or "Lost"
    playing,     \* the rest of NowPlaying
    drawn,       \* DrawnArtwork: what it believes is on the screen, or None
    size,        \* the terminal's size
    viewport,    \* the size ratatui drew for last
    text,        \* the text on the terminal
    picture,     \* the picture that is whole on the terminal, or None
    remains,     \* may parts of earlier pictures still be on it?
    held,        \* does stdout's buffer hold the escape that deletes it?
    erased       \* history: did a resize erase a picture that is still wanted
                 \* at the same place?

terminalVars == <<size, viewport, text, picture, remains, held, erased>>
displayVars == <<images, connection, playing, drawn, terminalVars>>
vars == <<clientVars, displayVars>>

------------------------------------------------------------------------------
(* Which protocol to speak (main, images.rs). *)

\* probe_kitty: the terminal's answers in order ("ok" or "error" to the query,
\* then "attributes"), of which n arrive in time.  Nothing is read after the
\* attributes.  None: no answer at all.
probe_kitty(answers, n) ==
    LET read == {k \in 1..n : \A j \in 1..(k - 1) : answers[j] # "attributes"}
    IN  IF read = {} THEN "silent" ELSE IF \E k \in read : answers[k] = "ok" THEN "yes" ELSE "no"

\* detect: a positive answer settles it; else the environment says.
detect(environment, probe) == IF probe = "yes" THEN "Kitty" ELSE environment

Answers == {<<>>, <<"attributes">>, <<"ok", "attributes">>, <<"error", "attributes">>}

------------------------------------------------------------------------------
(* The text and the layout. *)

\* NowPlaying::lines: which screen is shown.
TextFor(conn, state) ==
    CASE conn = "Connecting" -> "connecting"
      [] conn = "Lost"       -> "lost"
      [] OTHER               -> IF state["session"] = None THEN "idle" ELSE "track"

\* A track has a line for its title, and one each for artist and album; its
\* value here is their number.
TrackLines(track) == IF track = None THEN 1 ELSE track

\* A length of 0 is a stream without an end, which shows no position.
HasPosition(progress) == progress # None /\ progress # 0

LineCount(conn, state) ==
    IF TextFor(conn, state) # "track" THEN 3
    ELSE TrackLines(state["track"]) + (IF HasPosition(state["progress"]) THEN 3 ELSE 0) + 2

Lesser(a, b) == IF a < b THEN a ELSE b
Monus(a, b) == IF a < b THEN 0 ELSE a - b

\* layout, with a cell twice as tall as wide: the box of the artwork.  Where
\* it has a height there is room for the whole block, which is centred.
Box(s, lines) ==
    LET height == Lesser(Lesser(s.w \div 2, 20), Monus(s.h, lines + 3))
        width  == Lesser(2 * height, s.w)
    IN  [x |-> Monus(s.w, width) \div 2, y |-> Monus(s.h, height + 1 + lines) \div 2,
         w |-> width, h |-> height]

\* What draw_artwork wants on the screen: what state holds, if it has a box.
Wanted(s, conn, state) ==
    LET box == Box(s, LineCount(conn, state))
    IN  IF images = "None" \/ state["artwork"] = None \/ box.h = 0 \/ box.w = 0 THEN None
        ELSE [artwork |-> state["artwork"], area |-> box]

\* images::draw: Kitty takes PNG or decoded pixels, iTerm2 the file as it is.
Draws(artwork) == images = "Kitty" => artwork \notin Undecodable

------------------------------------------------------------------------------
Init ==
    /\ ClientInit
    /\ \E a \in Answers, environment \in {"Kitty", "ITerm2", "None"} :
          \E n \in 0..Len(a) : images = detect(environment, probe_kitty(a, n))
    /\ connection = "Connecting" /\ playing = Blank
    /\ drawn = None
    /\ size \in Sizes /\ viewport = size
    /\ text = "connecting" /\ picture = None
    /\ remains = FALSE /\ held = FALSE /\ erased = FALSE

\* Mutant: the box is not compared.
SameArtwork(wanted) ==
    \/ wanted = drawn
    \/ wanted # None /\ drawn # None /\ wanted.artwork = drawn.artwork

\* What should be on the screen and what is have not diverged.
UpToDate(wanted) == wanted = drawn

Covers(new, old) ==
    /\ new.x <= old.x /\ old.x + old.w <= new.x + new.w
    /\ new.y <= old.y /\ old.y + old.h <= new.y + new.h

\* Does a terminal that shows `before` still show parts of it when `wanted`, a
\* picture or none, takes its place?  Kitty deletes it; for iTerm2 there is no
\* deletion, and ratatui does not write cells again that were and are blank.
LeavesParts(wanted, before) ==
    /\ images = "ITerm2" /\ before # None
    /\ wanted # None => ~ Covers(wanted.area, before.area)

\* draw_artwork, on a terminal that shows `before` and maybe `parts` of earlier
\* pictures.  The delete goes to a buffer, which the early return for
\* undecodable artwork does not flush.
DrawArtwork(wanted, before, parts) ==
    CASE UpToDate(wanted) ->
            /\ picture' = before /\ remains' = parts
            /\ held' = FALSE
            /\ erased' = (erased \/ (drawn # None /\ before # picture))
            /\ UNCHANGED drawn
      [] ~ UpToDate(wanted) /\ wanted # None /\ ~ Draws(wanted.artwork) ->
            /\ drawn' = None
            /\ picture' = before /\ remains' = parts
            /\ held' = (drawn # None /\ images = "Kitty")
            /\ erased' = FALSE
      [] OTHER ->
            /\ drawn' = wanted
            /\ picture' = wanted
            /\ remains' = (parts \/ LeavesParts(wanted, before))
            /\ held' = FALSE /\ erased' = FALSE

\* The head of the loop: terminal.draw clears the terminal if it was resized,
\* writes the text, and flushes what the buffer held.
Redraw(conn, state) ==
    /\ connection' = conn /\ playing' = state
    /\ viewport' = size
    /\ text' = TextFor(conn, state)
    /\ DrawArtwork(Wanted(size, conn, state),
                   IF viewport # size \/ held THEN None ELSE picture,
                   remains /\ viewport = size)

------------------------------------------------------------------------------
(* The branches of select!. *)

\* NowPlaying::apply
ConnectionAfter(update) ==
    CASE update.type = "Connected"    -> "Connected"
      [] update.type = "Disconnected" -> "Lost"
      [] update.type = "Message"      -> connection

PlayingAfter(update) ==
    IF update.type = "Message" THEN Shown(playing, update.message) ELSE playing

Apply ==
    /\ Take
    /\ Redraw(ConnectionAfter(Head(updates)), PlayingAfter(Head(updates)))
    /\ UNCHANGED <<images, size>>

\* The heartbeat, a key that means nothing, or the notice of a resize.
Tick ==
    /\ display
    /\ Redraw(connection, playing)
    /\ UNCHANGED <<clientVars, images, size>>

\* The terminal changes its size under the display.
Resize ==
    /\ display
    /\ size' \in Sizes \ {size}
    /\ UNCHANGED <<clientVars, images, connection, playing, drawn,
                   viewport, text, picture, remains, held, erased>>

------------------------------------------------------------------------------
(* The ways out.  The client task ends only after the display.             *)

\* A key, a signal, the end of the input; an error of terminal.draw, or of a
\* write or the flush of draw_artwork.  TerminalGuard hands the terminal back,
\* whose screen is not followed any further.  The loop's own state is gone.
Quit ==
    /\ display /\ display' = FALSE /\ updates' = <<>>
    /\ connection' = "Connecting" /\ playing' = Blank
    /\ drawn' = None
    /\ viewport' = size /\ text' = "blank"
    /\ picture' = None /\ remains' = FALSE /\ held' = FALSE /\ erased' = FALSE
    /\ UNCHANGED <<receiver, deaf, phase, result, backoff, images, size>>

Client == ClientNext /\ UNCHANGED displayVars

Next ==
    \/ Client \/ Apply \/ Tick \/ Resize \/ Quit

Spec == Init /\ [][Next]_vars

------------------------------------------------------------------------------
Boxes == [x : Nat, y : Nat, w : Nat, h : Nat]
Pictures == [artwork : Values, area : Boxes]

\* Type correctness, of the client as well.
TypeOK ==
    /\ {receiver, deaf, display, remains, held, erased} \subseteq BOOLEAN
    /\ phase \in {"connecting", "up", "returned", "sleeping", "done"}
    /\ result \in {"worked", "error"}
    /\ backoff \in First..MaxBackoff
    /\ updates \in Seq(Updates) /\ Len(updates) <= MaxUpdates
    /\ images \in {"Kitty", "ITerm2", "None"}
    /\ connection \in {"Connecting", "Connected", "Lost"}
    /\ playing \in States
    /\ {size, viewport} \subseteq Sizes
    /\ text \in {"blank", "connecting", "lost", "idle", "track"}
    /\ {drawn, picture} \subseteq Pictures \cup {None}

\* The picture that belongs on the screen.
Due ==
    LET wanted == Wanted(viewport, connection, playing)
    IN  IF wanted # None /\ Draws(wanted.artwork) THEN wanted ELSE None

\* While the display waits, the terminal shows the artwork it was told of last,
\* in the box of the present layout, and no other, and none if there is none to
\* show; across changes of the track, of the length of the text and of the
\* terminal's size, losses of the connection, and artwork that cannot be
\* decoded.  Three exceptions: a picture that a resize erased without moving
\* its box is not sent again (see ReplacedAfterResize); one that is replaced by
\* undecodable artwork stays until the next heartbeat flushes its deletion;
\* and on iTerm2 parts of earlier pictures may stay beside the present one.
PictureIsCurrent ==
    (display /\ ~ held /\ ~ erased) => picture = Due /\ (remains => images = "ITerm2")

\* What the plan of the display says: "Resize events trigger a redraw and
\* re-place the artwork", "re-places correctly after a resize".  It is false
\* where the box stays the same: the screen is cleared, and the loop believes
\* the picture to be there still.
ReplacedAfterResize == (display /\ ~ held) => picture = Due

\* The screen shows the receiver's state, as opposed to that of the connection.
ShowsReceiver == display /\ text \in {"idle", "track"}

------------------------------------------------------------------------------
(* Liveness: the task and the display run, select! does not pass over an   *)
(* update for ever, the kernel reports a broken connection to either end,  *)
(* and a receiver that is up does not refuse every attempt.                *)
FairSpec ==
    /\ Spec
    /\ WF_clientVars(Task) /\ WF_clientVars(Broken)
    /\ WF_clientVars(Take) /\ SF_clientVars(Connect)

\* No connection breaks any more.
NoMoreBreaks == <>[][~ (CloseFrame \/ SocketError)]_clientVars

\* A receiver that is up for good is connected to in the end, and the screen
\* shows its state and goes on to, unless the display quits or the connection
\* breaks again and again, or the receiver had vanished under the connection:
\* that one is half open, and stays (see ReconnectsAfterReboot).
Reconnects ==
    (<>[](receiver /\ display /\ ~ deaf) /\ NoMoreBreaks)
        => <>[](phase = "up" /\ ShowsReceiver)

\* What client.rs says: the receiver "may live on a machine that reboots", and
\* the client "reconnects for as long as the dashboard runs".  It is false of a
\* machine that failed without closing its sockets: session waits for a frame
\* on the dead one, without a timeout.
ReconnectsAfterReboot ==
    (<>[](receiver /\ display) /\ NoMoreBreaks)
        => <>[](phase = "up" /\ ~ deaf /\ ShowsReceiver)

\* "The display shows the connection state rather than a stale screen": the
\* screen does not go on to show the state of a receiver that is down, if the
\* connection was closed.  (Of one that vanished it is never told.)
NoStaleScreen ==
    (ShowsReceiver /\ ~ receiver /\ ~ deaf) ~> (~ ShowsReceiver \/ receiver)
=============================================================================
