------------------------------- MODULE MCDisplay -------------------------------
(* A track of three lines with its artwork, which the position moves up;    *)
(* artwork that cannot be decoded (3), artwork outside a session, and none; *)
(* a common terminal, one a column wider, where no box moves, and one too   *)
(* low for a picture.                                                       *)
EXTENDS Display

Set(field, value) == [type |-> field, value |-> value]

MCMessages ==
    {[type |-> "Snapshot",
      state |-> [Blank EXCEPT !["session"] = 1, !["track"] = 3, !["artwork"] = 1]],
     Set("artwork", 1), Set("artwork", 3), Set("progress", 1), [type |-> "SessionEnded"]}

MCSizes == {[w |-> 80, h |-> 24], [w |-> 81, h |-> 24], [w |-> 80, h |-> 6]}

\* detect fails closed: no picture is sent to a terminal that neither answers
\* the probe with OK nor is known by its environment, however its answers are
\* cut off by the time limit; one that answers in time is believed.
ASSUME DetectFailsClosed ==
    \A a \in Answers : \A n \in 0..Len(a) :
        detect("None", probe_kitty(a, n)) =
            IF \E k \in 1..n : a[k] = "ok" THEN "Kitty" ELSE "None"
=============================================================================
