------------------------------ MODULE MCDashboard ------------------------------
(* Two tracks, a volume and a position; the other fields are set and        *)
(* cleared the same way.                                                    *)
EXTENDS Dashboard

Set(field, value) == [type |-> field, value |-> value]

MCMessages ==
    {Set("track", 1), Set("track", 2), Set("volume", 1), Set("progress", 1),
     [type |-> "Flushed"], [type |-> "SessionEnded"]}
=============================================================================
