--------------------------- MODULE MCAudioReceiver ---------------------------
(* The audio task on small streams; the configurations choose the bounds.  *)
EXTENDS AudioReceiver
=============================================================================
