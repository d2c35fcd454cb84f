----------------------------- MODULE PlayoutOrder -----------------------------
(***************************************************************************)
(* What the jitter buffer promises, without a ring: the packets accepted   *)
(* and not yet delivered are a SET of sequence numbers.  Delivery is in    *)
(* order and contiguous, a packet that was accepted is never reported lost *)
(* and never dropped before a reset, and a gap is given up only when the   *)
(* newest accepted packet is MaxLead or more ahead of it.                  *)
(***************************************************************************)
EXTENDS SeqCircle, Sequences

CONSTANTS Capacity, MaxLead, None

VARIABLES next,      \* next sequence number to deliver, or None
          newest,    \* newest packet accepted since the last reset, or None
          held,      \* packets accepted and not yet delivered
          out        \* what the last operation delivered

vars == <<next, newest, held, out>>

Init == next = None /\ newest = None /\ held = {} /\ out = <<>>

Arrive(s) ==
    LET n == IF next = None THEN s ELSE next
    IN  /\ next' = n
        /\ out' = <<>>
        /\ \/ /\ seq_diff(s, n) \in 0..(Capacity - 1)
              /\ held' = held \cup {s}
              /\ newest' = IF newest = None \/ seq_diff(s, newest) > 0
                           THEN s ELSE newest
           \/ /\ seq_diff(s, n) \notin 0..(Capacity - 1)
              /\ UNCHANGED <<held, newest>>

\* n turns: each delivers a held packet, or gives up one that is not held.
Release ==
    \E n \in 0..Capacity :
        /\ n > 0 => newest # None
        /\ out' = [k \in 1..n |->
                       LET s == Plus(next, k - 1)
                       IN  [seq |-> s, frame |-> IF s \in held THEN s ELSE None]]
        /\ \A k \in 0..(n - 1) : \/ Plus(next, k) \in held
                                 \/ seq_diff(newest, Plus(next, k)) >= MaxLead
        /\ next' = IF n = 0 THEN next ELSE Plus(next, n)
        /\ held' = held \ {Plus(next, k) : k \in 0..(n - 1)}
        /\ UNCHANGED newest

Restart(s) == next' = s /\ newest' = None /\ held' = {} /\ out' = <<>>

Next == \/ \E s \in Seqs : Arrive(s)
        \/ Release
        \/ \E s \in Seqs \cup {None} : Restart(s)

Spec == Init /\ [][Next]_vars
=============================================================================
