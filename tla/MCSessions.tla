------------------------------ MODULE MCSessions ------------------------------
(* Two senders.  OneOwner and OneSink leave no use for a third playback     *)
(* thread: two can live at a time, and while two live none is spawned.      *)
EXTENDS Sessions
=============================================================================
