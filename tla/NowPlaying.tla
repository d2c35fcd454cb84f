------------------------------ MODULE NowPlaying ------------------------------
(***************************************************************************)
(* What is playing, as the receiver and its dashboards know it: a value    *)
(* per field, changed by messages.  A message states the new value of one  *)
(* field, or clears several.  Receiver and dashboard fold the messages     *)
(* with a function each (Snapshot::apply in the protocol's lib.rs,         *)
(* NowPlaying::apply in tui.rs).                                           *)
(***************************************************************************)
CONSTANTS Values,     \* the values of a field
          None        \* nothing known; artwork: cleared, or not valid base64

ASSUME NoneIsNoValue == None \notin Values

Fields == {"session", "track", "artwork", "volume", "progress"}
States == [Fields -> Values \cup {None}]
Changes == [type : Fields, value : Values \cup {None}]
           \cup [type : {"Flushed", "SessionEnded"}]
Snapshots == [type : {"Snapshot"}, state : States]

Blank == [f \in Fields |-> None]

\* Snapshot::apply: how the receiver folds a change.
Folded(state, m) ==
    CASE m.type \in Fields     -> [state EXCEPT ![m.type] = m.value]
      [] m.type = "Flushed"      -> [state EXCEPT !["progress"] = None]
      [] m.type = "SessionEnded" -> Blank

\* NowPlaying::apply: how a dashboard folds what it receives.  A flush stops
\* the position where it was; the volume outlives the session.
Shown(state, m) ==
    CASE m.type = "Snapshot"   -> m.state
      [] m.type \in Fields     -> [state EXCEPT ![m.type] = m.value]
      [] m.type = "Flushed"      -> state
      [] m.type = "SessionEnded" -> [Blank EXCEPT !["volume"] = state["volume"]]
=============================================================================
