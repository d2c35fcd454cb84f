------------------------------ MODULE JitterRing ------------------------------
(***************************************************************************)
(* The data structure of jitter.rs: a ring of Capacity slots addressed by  *)
(* sequence number modulo Capacity.  A slot holds a frame and nothing that *)
(* says which sequence number the frame came with.  Frames are whatever    *)
(* the instantiating module uses to tell them apart; decoding is left out. *)
(*                                                                         *)
(* pop_ready is a loop: StopsAfter(b, n) says that it runs n times on b,   *)
(* and the two operators after it what it returns and what it leaves.      *)
(***************************************************************************)
EXTENDS SeqCircle, Option, Sequences

CONSTANTS Capacity,    \* CAPACITY, 512 in the code
          MaxLead      \* MAX_LEAD, 128 in the code

ASSUME RingAssumption ==
    /\ Capacity \in Nat \ {0}
    /\ MaxLead \in Nat
    /\ MaxLead < Capacity               \* asserted by the constructor
    /\ 2 * Capacity < SeqSpace
    /\ SeqSpace % Capacity = 0

slot(seq) == seq % Capacity

EmptySlots == [i \in 0..(Capacity - 1) |-> None]

\* Mutant: FLUSH forgets the sequence number it was given.
ForgetsSeek(seq) == [slots |-> EmptySlots, next_seq |-> None, highest_seq |-> None]

reset(seq) == [slots |-> EmptySlots, next_seq |-> seq, highest_seq |-> None]

\* JitterBuffer::new
NewBuffer == reset(None)

\* Mutants: a late packet is stored; a packet one ring ahead is stored.
StoresLate(ahead)  == ahead >= Capacity
StoresAlias(ahead) == ahead < 0 \/ ahead > Capacity

\* Older than what is delivered next, or beyond one ring of lead.
Rejects(ahead) == ahead < 0 \/ ahead >= Capacity

\* Mutant: a packet that is rejected counts as received.
CountsRejected(b, seq, frame) ==
    LET next == IF b.next_seq = None THEN seq ELSE b.next_seq
    IN  [slots |-> IF Rejects(seq_diff(seq, next)) THEN b.slots
                   ELSE [b.slots EXCEPT ![slot(seq)] = frame],
         next_seq |-> next,
         highest_seq |-> IF b.highest_seq = None \/ seq_diff(seq, b.highest_seq) > 0
                         THEN seq ELSE b.highest_seq]

insert(b, seq, frame) ==
    LET next  == IF b.next_seq = None THEN seq ELSE b.next_seq
        ahead == seq_diff(seq, next)
    IN  IF Rejects(ahead)
        THEN [b EXCEPT !.next_seq = next]
        ELSE [slots |-> [b.slots EXCEPT ![slot(seq)] = frame],
              next_seq |-> next,
              highest_seq |->
                  IF b.highest_seq = None \/ seq_diff(seq, b.highest_seq) > 0
                  THEN seq ELSE b.highest_seq]

------------------------------------------------------------------------------
\* The sequence number the loop of pop_ready looks at in its k-th turn.
At(b, k) == Plus(b.next_seq, k)

\* After Capacity turns the loop is back at a slot it has emptied itself.
Filled(b, k) == k < Capacity /\ b.slots[slot(At(b, k))] # None

GivesUp(b, k) == seq_diff(b.highest_seq, At(b, k)) >= MaxLead

StopsAfter(b, n) ==
    IF b.highest_seq = None THEN n = 0
    ELSE /\ \A k \in 0..(n - 1) : Filled(b, k) \/ GivesUp(b, k)
         /\ ~ Filled(b, n) /\ ~ GivesUp(b, n)

\* Delivery::Packet, or Delivery::Lost when the frame is None
Deliveries(b, n) ==
    [k \in 1..n |-> [seq   |-> At(b, k - 1),
                     frame |-> b.slots[slot(At(b, k - 1))]]]

Popped(b, n) ==
    IF n = 0 THEN b
    ELSE [b EXCEPT !.next_seq = At(b, n),
                   !.slots = [i \in 0..(Capacity - 1) |->
                       IF \E k \in 0..(n - 1) : slot(At(b, k)) = i
                       THEN None ELSE b.slots[i]]]

\* Mutant: the loop starts one past the gap at the front.
MissingPastFront(b) ==
    IF b.next_seq = None \/ b.highest_seq = None THEN {}
    ELSE {At(b, k) : k \in {j \in 1..seq_diff(b.highest_seq, b.next_seq) :
                                b.slots[slot(At(b, j))] = None}}

\* What the retransmit requester asks for.
missing(b) ==
    IF b.next_seq = None \/ b.highest_seq = None THEN {}
    ELSE {At(b, k) : k \in {j \in 0..seq_diff(b.highest_seq, b.next_seq) :
                                b.slots[slot(At(b, j))] = None}}
=============================================================================
