----------------------------- MODULE StreamingSlot -----------------------------
(***************************************************************************)
(* What the receiver promises its host about senders, without requests,    *)
(* handlers and threads: the slot changes hands only through nobody, never *)
(* while a sink is alive; a session starts, and a sink is made, only for   *)
(* the connection that holds the slot, and no sink of another is alive at  *)
(* that moment; a second sink only replaces the first.  An end belongs to  *)
(* a start, and progress to a session or to a sink that is still alive.    *)
(***************************************************************************)
EXTENDS Naturals

CONSTANTS Conns, Sinks, None

VARIABLES holders,   \* who holds the slot: nobody or one connection
          sinks,     \* per sink: the connection it plays for, or None
          open,      \* per connection: starts minus ends
          heard      \* what the last step told the host of sessions

vars == <<holders, sinks, open, heard>>

Says(kind, c) == heard' = {[kind |-> kind, conn |-> c]}

Init ==
    /\ holders = {}
    /\ sinks = [t \in Sinks |-> None]
    /\ open = [c \in Conns |-> 0]
    /\ heard = {}

\* A step of which the host hears nothing.
Quiet == heard' = {} /\ UNCHANGED <<holders, sinks, open>>

Acquire(c) ==
    /\ holders = {}
    /\ holders' = {c}
    /\ heard' = {} /\ UNCHANGED <<sinks, open>>

Release(c) ==
    /\ holders = {c} /\ \A t \in Sinks : sinks[t] = None
    /\ holders' = {}
    /\ heard' = {} /\ UNCHANGED <<sinks, open>>

Start(c) ==
    /\ holders = {c} /\ \A t \in Sinks : sinks[t] \in {c, None}
    /\ open' = [open EXCEPT ![c] = @ + 1]
    /\ Says("Started", c)
    /\ UNCHANGED <<holders, sinks>>

End(c) ==
    /\ open[c] > 0
    /\ open' = [open EXCEPT ![c] = @ - 1]
    /\ Says("Ended", c)
    /\ UNCHANGED <<holders, sinks>>

\* Of the sinks alive so far there is at most one, the same connection's.
MakeSink(c, t) ==
    /\ holders = {c} /\ open[c] > 0
    /\ sinks[t] = None
    /\ \A u, v \in Sinks : sinks[u] # None /\ sinks[v] # None => u = v /\ sinks[u] = c
    /\ sinks' = [sinks EXCEPT ![t] = c]
    /\ heard' = {} /\ UNCHANGED <<holders, open>>

DropSink(t) ==
    /\ sinks[t] # None
    /\ sinks' = [sinks EXCEPT ![t] = None]
    /\ heard' = {} /\ UNCHANGED <<holders, open>>

Progress(c) ==
    /\ open[c] > 0 \/ \E t \in Sinks : sinks[t] = c
    /\ Says("Progress", c)
    /\ UNCHANGED <<holders, sinks, open>>

Next ==
    \/ Quiet
    \/ \E c \in Conns :
          \/ Acquire(c) \/ Release(c) \/ Start(c) \/ End(c) \/ Progress(c)
          \/ \E t \in Sinks : MakeSink(c, t)
    \/ \E t \in Sinks : DropSink(t)

Spec == Init /\ [][Next]_vars
=============================================================================
