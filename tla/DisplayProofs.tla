----------------------------- MODULE DisplayProofs -----------------------------
(***************************************************************************)
(* The picture on the terminal, for every set of messages, artwork and     *)
(* sizes: while the display waits it is the one that is due, but for the   *)
(* exceptions that PictureIsCurrent names.                                 *)
(*                                                                         *)
(* The loop compares what it wants with what it believes to be drawn; that *)
(* is enough because the belief is right: what it believes drawn was drawn *)
(* and is still there unless a resize erased it, and where it believes in  *)
(* nothing there is nothing, unless a deletion is still in the buffer.     *)
(***************************************************************************)
EXTENDS Display, TLAPS

Belief ==
    /\ drawn # None => Draws(drawn.artwork) /\ (~ erased => picture = drawn)
    /\ drawn = None /\ ~ held => picture = None
    /\ held => drawn = None
    /\ remains => images = "ITerm2"

IInv == Belief /\ PictureIsCurrent

------------------------------------------------------------------------------
LEMMA InitIInv == Init => IInv
  <1> SUFFICES ASSUME Init PROVE IInv
    OBVIOUS
  <1>1. /\ playing = Blank /\ drawn = None /\ picture = None /\ held = FALSE
        /\ remains = FALSE
    BY DEF Init, ClientInit
  <1>2. playing["artwork"] = None
    BY <1>1 DEF Blank, Fields
  <1>3. Wanted(viewport, connection, playing) = None
    BY <1>2 DEF Wanted
  <1>4. Due = None
    BY <1>3 DEF Due
  <1> QED BY <1>1, <1>4 DEF IInv, Belief, PictureIsCurrent

\* The three outcomes of draw_artwork.
LEMMA DrawCases ==
    ASSUME NEW wanted, NEW before, NEW parts, DrawArtwork(wanted, before, parts)
    PROVE  /\ remains' => parts \/ images = "ITerm2"
           /\ \/ /\ wanted = drawn
                 /\ picture' = before /\ ~ held'
                 /\ erased' = (erased \/ (drawn # None /\ before # picture))
                 /\ drawn' = drawn
              \/ /\ wanted # drawn /\ wanted # None /\ ~ Draws(wanted.artwork)
                 /\ drawn' = None /\ picture' = before
                 /\ held' = (drawn # None /\ images = "Kitty")
              \/ /\ wanted # None => Draws(wanted.artwork)
                 /\ drawn' = wanted /\ ~ held' /\ ~ erased'
                 /\ picture' = wanted
  <1>1. CASE UpToDate(wanted)
    BY <1>1 DEF DrawArtwork, UpToDate
  <1>2. CASE ~ UpToDate(wanted) /\ wanted # None /\ ~ Draws(wanted.artwork)
    BY <1>2 DEF DrawArtwork, UpToDate
  <1>3. CASE ~ UpToDate(wanted) /\ (wanted # None => Draws(wanted.artwork))
    BY <1>3 DEF DrawArtwork, UpToDate, LeavesParts
  <1> QED BY <1>1, <1>2, <1>3

LEMMA RedrawIInv ==
    ASSUME IInv, NEW conn, NEW state, display, display', images' = images,
           Redraw(conn, state)
    PROVE  IInv'
  <1> DEFINE wanted == Wanted(size, conn, state)
             before == IF viewport # size \/ held THEN None ELSE picture
             parts  == remains /\ viewport = size
  <1>1. /\ connection' = conn /\ playing' = state /\ viewport' = size
        /\ DrawArtwork(wanted, before, parts)
    BY DEF Redraw
  <1>2. Wanted(viewport, connection, playing)' = wanted
    BY <1>1 DEF Wanted
  <1>3. \A artwork : Draws(artwork)' = Draws(artwork)
    BY DEF Draws
  <1>4. Due' = IF wanted # None /\ Draws(wanted.artwork) THEN wanted ELSE None
    BY <1>2 DEF Due, Draws
  <1> HIDE DEF wanted
  <1>5. remains' => images' = "ITerm2"
    BY <1>1, DrawCases DEF IInv, Belief
  <1>6. CASE /\ wanted = drawn
             /\ picture' = before /\ ~ held'
             /\ erased' = (erased \/ (drawn # None /\ before # picture))
             /\ drawn' = drawn
    <2>1. CASE drawn = None
      <3>1. before = None
        BY <2>1 DEF IInv, Belief
      <3>2. Due' = None
        BY <1>4, <1>6, <2>1
      <3>3. Belief'
        BY <1>5, <1>6, <2>1, <3>1 DEF Belief
      <3>4. PictureIsCurrent'
        BY <1>5, <1>6, <3>1, <3>2 DEF PictureIsCurrent
      <3> QED BY <3>3, <3>4 DEF IInv
    <2>2. CASE drawn # None
      <3>1. Draws(drawn.artwork) /\ (~ erased' => ~ erased /\ before = picture)
        BY <1>6, <2>2 DEF IInv, Belief
      <3>2. ~ erased' => picture' = drawn
        BY <1>6, <2>2, <3>1 DEF IInv, Belief
      <3>3. Due' = drawn
        BY <1>4, <1>6, <2>2, <3>1
      <3>4. Belief'
        BY <1>3, <1>5, <1>6, <2>2, <3>1, <3>2 DEF Belief
      <3>5. PictureIsCurrent'
        BY <1>5, <3>2, <3>3 DEF PictureIsCurrent
      <3> QED BY <3>4, <3>5 DEF IInv
    <2> QED BY <2>1, <2>2
  <1>7. CASE /\ wanted # drawn /\ wanted # None /\ ~ Draws(wanted.artwork)
             /\ drawn' = None /\ picture' = before
             /\ held' = (drawn # None /\ images = "Kitty")
    <2>1. images = "Kitty"
      BY <1>7 DEF Draws
    <2>2. ~ held' => before = None
      BY <1>7, <2>1 DEF IInv, Belief
    <2>3. Due' = None
      BY <1>4, <1>7
    <2>4. Belief'
      BY <1>5, <1>7, <2>2 DEF Belief
    <2>5. PictureIsCurrent'
      BY <1>5, <1>7, <2>2, <2>3 DEF PictureIsCurrent
    <2> QED BY <2>4, <2>5 DEF IInv
  <1>8. CASE /\ wanted # None => Draws(wanted.artwork)
             /\ drawn' = wanted /\ ~ held' /\ ~ erased'
             /\ picture' = wanted
    <2>1. Due' = wanted
      BY <1>4, <1>8
    <2>2. Belief'
      BY <1>3, <1>5, <1>8 DEF Belief
    <2>3. PictureIsCurrent'
      BY <1>5, <1>8, <2>1 DEF PictureIsCurrent
    <2> QED BY <2>2, <2>3 DEF IInv
  <1> QED BY <1>1, <1>6, <1>7, <1>8, DrawCases

\* Steps that touch nothing of what the invariant speaks of.
LEMMA ElsewhereIInv ==
    ASSUME IInv, display' = display, UNCHANGED <<images, connection, playing, drawn>>,
           UNCHANGED <<viewport, picture, remains, held, erased>>
    PROVE  IInv'
  <1>1. Due' = Due
    BY DEF Due, Wanted, Draws
  <1>2. Belief'
    BY DEF IInv, Belief, Draws
  <1>3. PictureIsCurrent'
    BY <1>1 DEF IInv, PictureIsCurrent
  <1> QED BY <1>2, <1>3 DEF IInv

LEMMA NextIInv == IInv /\ [Next]_vars => IInv'
  <1> SUFFICES ASSUME IInv, [Next]_vars PROVE IInv'
    OBVIOUS
  <1>1. CASE Client
    <2>1. display' = display
      BY <1>1 DEF Client, ClientNext, Task, Connect, ConnectFails, Retry, Wake, Receive,
                  CloseFrame, SocketError, ReceiverStops, ReceiverVanishes, ReceiverStarts
    <2>2. /\ UNCHANGED <<images, connection, playing, drawn>>
          /\ UNCHANGED <<viewport, picture, remains, held, erased>>
      BY <1>1 DEF Client, displayVars, terminalVars
    <2> QED BY <2>1, <2>2, ElsewhereIInv
  <1>2. CASE Apply
    BY <1>2, RedrawIInv DEF Apply, Take
  <1>3. CASE Tick
    BY <1>3, RedrawIInv DEF Tick, clientVars
  <1>4. CASE Resize
    BY <1>4, ElsewhereIInv DEF Resize, clientVars
  <1>5. CASE Quit
    BY <1>5 DEF Quit, IInv, Belief, PictureIsCurrent
  <1>6. CASE UNCHANGED vars
    BY <1>6, ElsewhereIInv DEF vars, clientVars, displayVars, terminalVars
  <1> QED BY <1>1, <1>2, <1>3, <1>4, <1>5, <1>6 DEF Next

\* What the loop believes to be drawn agrees with the terminal, after every
\* step of the client, the display and the terminal (draw_artwork).
THEOREM Invariant == Spec => []IInv
  BY InitIInv, NextIInv, PTL DEF Spec

\* The terminal shows the artwork it was told of last in the box of the present
\* layout and no other, with the three exceptions that PictureIsCurrent names:
\* after a resize that moves no box, before a deletion is flushed, and for the
\* parts of earlier pictures on iTerm2 (draw_artwork).
THEOREM PictureTheorem == Spec => []PictureIsCurrent
  <1>1. IInv => PictureIsCurrent
    BY DEF IInv
  <1> QED BY <1>1, Invariant, PTL

------------------------------------------------------------------------------
(* Types. *)

ClientTypes ==
    /\ {receiver, deaf, display} \subseteq BOOLEAN
    /\ phase \in {"connecting", "up", "returned", "sleeping", "done"}
    /\ result \in {"worked", "error"}
    /\ backoff \in First..MaxBackoff
    /\ updates \in Seq(Updates) /\ Len(updates) <= MaxUpdates

ScreenTypes ==
    /\ {remains, held, erased} \subseteq BOOLEAN
    /\ images \in {"Kitty", "ITerm2", "None"}
    /\ connection \in {"Connecting", "Connected", "Lost"}
    /\ playing \in States
    /\ {size, viewport} \subseteq Sizes
    /\ text \in {"blank", "connecting", "lost", "idle", "track"}
    /\ {drawn, picture} \subseteq Pictures \cup {None}

\* The layout has no negative coordinate, whatever the size and the text.
LEMMA BoxType ==
    ASSUME NEW s \in Sizes, NEW lines \in Nat
    PROVE  Box(s, lines) \in Boxes
  <1>1. s.w \in Nat /\ s.h \in Nat
    BY DisplayAssumption
  <1> DEFINE height == Lesser(Lesser(s.w \div 2, 20), Monus(s.h, lines + 3))
             width  == Lesser(2 * height, s.w)
             x      == Monus(s.w, width)
             y      == Monus(s.h, height + 1 + lines)
  <1>2. height \in Nat
    BY <1>1 DEF Lesser, Monus
  <1>3. width \in Nat
    <2> HIDE DEF height
    <2> QED BY <1>1, <1>2 DEF Lesser
  <1>4. x \in Nat /\ y \in Nat
    <2> HIDE DEF height, width
    <2> QED BY <1>1, <1>2, <1>3 DEF Monus
  <1>5. x \div 2 \in Nat /\ y \div 2 \in Nat
    <2> HIDE DEF x, y
    <2> QED BY <1>4
  <1>6. Box(s, lines) = [x |-> x \div 2, y |-> y \div 2, w |-> width, h |-> height]
    BY DEF Box
  <1> HIDE DEF height, width, x, y
  <1> QED BY <1>2, <1>3, <1>5, <1>6 DEF Boxes

LEMMA WantedType ==
    ASSUME NEW s \in Sizes, NEW conn, NEW state \in States
    PROVE  Wanted(s, conn, state) \in Pictures \cup {None}
  <1>1. LineCount(conn, state) \in Nat
    <2>1. state["track"] \in Nat \cup {None}
      BY DisplayAssumption DEF States, Fields
    <2>2. TrackLines(state["track"]) \in Nat
      BY <2>1 DEF TrackLines
    <2> QED BY <2>2 DEF LineCount
  <1>2. Box(s, LineCount(conn, state)) \in Boxes
    BY <1>1, BoxType
  <1>3. state["artwork"] \in Values \cup {None}
    BY DEF States, Fields
  <1> QED BY <1>2, <1>3 DEF Wanted, Pictures

LEMMA ShownType ==
    ASSUME NEW m \in Changes \cup Snapshots, NEW state \in States
    PROVE  Shown(state, m) \in States
  <1>1. CASE m \in Snapshots
    BY <1>1 DEF Snapshots, Shown, Fields
  <1>2. CASE m \in Changes /\ m.type \in Fields
    <2>1. m.value \in Values \cup {None}
      BY <1>2 DEF Changes, Fields
    <2>2. Shown(state, m) = [state EXCEPT ![m.type] = m.value]
      BY <1>2 DEF Shown, Fields
    <2> QED BY <1>2, <2>1, <2>2 DEF States
  <1>3. CASE m \in Changes /\ m.type = "Flushed"
    BY <1>3 DEF Shown, Fields
  <1>4. CASE m \in Changes /\ m.type = "SessionEnded"
    <2>1. Shown(state, m) = [Blank EXCEPT !["volume"] = state["volume"]]
      BY <1>4 DEF Shown, Fields
    <2> QED BY <2>1 DEF States, Blank, Fields
  <1> QED BY <1>1, <1>2, <1>3, <1>4 DEF Changes

LEMMA RedrawTypes ==
    ASSUME ScreenTypes, NEW conn \in {"Connecting", "Connected", "Lost"},
           NEW state \in States, UNCHANGED <<images, size>>, Redraw(conn, state)
    PROVE  ScreenTypes'
  <1> DEFINE wanted == Wanted(size, conn, state)
             before == IF viewport # size \/ held THEN None ELSE picture
             parts  == remains /\ viewport = size
  <1>1. /\ connection' = conn /\ playing' = state /\ viewport' = size
        /\ text' = TextFor(conn, state)
        /\ DrawArtwork(wanted, before, parts)
    BY DEF Redraw
  <1>2. wanted \in Pictures \cup {None} /\ before \in Pictures \cup {None}
        /\ parts \in BOOLEAN
    BY WantedType DEF ScreenTypes
  <1> HIDE DEF wanted, before, parts
  <1>3. /\ {drawn', picture'} \subseteq Pictures \cup {None}
        /\ {remains', held', erased'} \subseteq BOOLEAN
    <2>1. CASE UpToDate(wanted)
      BY <1>1, <1>2, <2>1 DEF DrawArtwork, ScreenTypes
    <2>2. CASE ~ UpToDate(wanted) /\ wanted # None /\ ~ Draws(wanted.artwork)
      BY <1>1, <1>2, <2>2 DEF DrawArtwork, ScreenTypes
    <2>3. CASE ~ UpToDate(wanted) /\ (wanted # None => Draws(wanted.artwork))
      BY <1>1, <1>2, <2>3 DEF DrawArtwork, LeavesParts, ScreenTypes
    <2> QED BY <2>1, <2>2, <2>3
  <1>4. TextFor(conn, state) \in {"connecting", "lost", "idle", "track"}
    BY DEF TextFor
  <1> QED BY <1>1, <1>3, <1>4 DEF ScreenTypes

\* What an update makes of the connection and of what is playing.
LEMMA AppliedTypes ==
    ASSUME ClientTypes, ScreenTypes, updates # <<>>
    PROVE  /\ ConnectionAfter(Head(updates)) \in {"Connecting", "Connected", "Lost"}
           /\ PlayingAfter(Head(updates)) \in States
  <1> DEFINE update == Head(updates)
  <1>1. update \in Updates
    BY DEF ClientTypes
  <1>2. \/ update.type \in {"Connected", "Disconnected"}
        \/ update.type = "Message" /\ update.message \in Messages
    BY <1>1 DEF Updates
  <1>3. ConnectionAfter(update) \in {"Connecting", "Connected", "Lost"}
    BY <1>2 DEF ConnectionAfter, ScreenTypes
  <1>4. PlayingAfter(update) \in States
    BY <1>2, ShownType, DisplayAssumption DEF PlayingAfter, ScreenTypes
  <1> QED BY <1>3, <1>4

LEMMA TellTypes ==
    ASSUME ClientTypes, NEW update \in Updates, NEW next, Tell(update, next)
    PROVE  /\ updates' \in Seq(Updates) /\ Len(updates') <= MaxUpdates
           /\ phase' \in {next, "done"}
  BY ClientAssumption DEF ClientTypes, Tell

LEMMA ClientStepTypes ==
    ASSUME ClientTypes, ClientNext
    PROVE  ClientTypes'
  <1>1. /\ Update("Connected") \in Updates /\ Update("Disconnected") \in Updates
        /\ \A m \in Messages : [type |-> "Message", message |-> m] \in Updates
    BY DEF Update, Updates
  <1>2. CASE Connect
    <2>1. Tell(Update("Connected"), "up")
      BY <1>2 DEF Connect
    <2> QED BY <1>1, <1>2, <2>1, TellTypes DEF Connect, ClientTypes
  <1>3. CASE Receive
    <2>1. PICK m \in Messages : Tell([type |-> "Message", message |-> m], "up")
      BY <1>3 DEF Receive
    <2> QED BY <1>1, <1>3, <2>1, TellTypes DEF Receive, ClientTypes
  <1>4. CASE Retry
    <2>1. Tell(Update("Disconnected"), "sleeping")
      BY <1>4 DEF Retry
    <2>2. backoff' \in First..MaxBackoff
      BY <1>4, ClientAssumption DEF Retry, Longer, ClientTypes
    <2> QED BY <1>1, <1>4, <2>1, <2>2, TellTypes DEF Retry, ClientTypes
  <1>5. CASE ConnectFails \/ CloseFrame \/ SocketError \/ Wake
    BY <1>5 DEF ConnectFails, CloseFrame, SocketError, Wake, ClientTypes
  <1>6. CASE ReceiverStops \/ ReceiverVanishes \/ ReceiverStarts
    BY <1>6 DEF ReceiverStops, ReceiverVanishes, ReceiverStarts, ClientTypes
  <1> QED BY <1>2, <1>3, <1>4, <1>5, <1>6 DEF ClientNext, Task

LEMMA QuitTypes ==
    ASSUME ClientTypes, ScreenTypes, Quit
    PROVE  ClientTypes' /\ ScreenTypes'
  <1>1. <<>> \in Seq(Updates) /\ Len(<<>>) <= MaxUpdates /\ Blank \in States
    BY ClientAssumption DEF Blank, States
  <1> QED BY <1>1 DEF Quit, ClientTypes, ScreenTypes

\* Every variable keeps its type, the boxes of the pictures included: the
\* arithmetic of `layout` never goes below zero.
THEOREM TypeTheorem == Spec => []TypeOK
  <1> DEFINE TInv == ClientTypes /\ ScreenTypes
  <1>1. Init => TInv
    <2> SUFFICES ASSUME Init PROVE TInv
      OBVIOUS
    <2>1. ClientTypes
      <3>1. backoff \in First..MaxBackoff
        BY ClientAssumption DEF Init, ClientInit
      <3>2. <<>> \in Seq(Updates) /\ Len(<<>>) <= MaxUpdates
        BY ClientAssumption
      <3> QED BY <3>1, <3>2 DEF Init, ClientInit, ClientTypes
    <2>2. images \in {"Kitty", "ITerm2", "None"}
      BY DEF Init, detect
    <2>3. Blank \in States
      BY DEF Blank, States
    <2> QED BY <2>1, <2>2, <2>3 DEF Init, ScreenTypes
  <1>2. TInv /\ [Next]_vars => TInv'
    <2> SUFFICES ASSUME ClientTypes, ScreenTypes, [Next]_vars
                 PROVE  ClientTypes' /\ ScreenTypes'
      OBVIOUS
    <2>1. CASE Client
      BY <2>1, ClientStepTypes DEF Client, displayVars, terminalVars, ScreenTypes
    <2>2. CASE Apply
      <3>1. /\ updates # <<>> /\ updates' = Tail(updates)
            /\ UNCHANGED <<receiver, deaf, phase, result, backoff, display>>
        BY <2>2 DEF Apply, Take
      <3>2. ClientTypes'
        BY <3>1, ClientAssumption DEF ClientTypes
      <3>3. ScreenTypes'
        BY <2>2, <3>1, AppliedTypes, RedrawTypes DEF Apply
      <3> QED BY <3>2, <3>3
    <2>3. CASE Tick
      <3>1. ClientTypes'
        BY <2>3 DEF Tick, clientVars, ClientTypes
      <3>2. ScreenTypes'
        BY <2>3, RedrawTypes DEF Tick, ScreenTypes
      <3> QED BY <3>1, <3>2
    <2>4. CASE Resize
      BY <2>4 DEF Resize, clientVars, ClientTypes, ScreenTypes
    <2>5. CASE Quit
      BY <2>5, QuitTypes
    <2>6. CASE UNCHANGED vars
      BY <2>6 DEF vars, clientVars, displayVars, terminalVars, ClientTypes, ScreenTypes
    <2> QED BY <2>1, <2>2, <2>3, <2>4, <2>5, <2>6 DEF Next
  <1>3. TInv => TypeOK
    BY DEF ClientTypes, ScreenTypes, TypeOK
  <1> QED BY <1>1, <1>2, <1>3, PTL DEF Spec
================================================================================
