----------------------------- MODULE JitterBuffer -----------------------------
(***************************************************************************)
(* The jitter buffer as a state machine: any sequence number may arrive at *)
(* any time, the buffer may be drained and reset at any time.  A frame is  *)
(* identified with the sequence number it arrived with, so that a frame    *)
(* delivered under another number is visible.                              *)
(***************************************************************************)
EXTENDS JitterRing

VARIABLES buffer,    \* the JitterBuffer: slots, next_seq, highest_seq
          returned   \* the return value of the last call of pop_ready

bufferVars == <<buffer, returned>>

BufferInit == buffer = NewBuffer /\ returned = <<>>

Insert(seq) == /\ buffer' = insert(buffer, seq, seq)
               /\ returned' = <<>>

PopReady == \E n \in 0..Capacity :
               /\ StopsAfter(buffer, n)
               /\ buffer' = Popped(buffer, n)
               /\ returned' = Deliveries(buffer, n)

Reset(seq) == /\ buffer' = reset(seq)
              /\ returned' = <<>>

BufferNext ==
    \/ \E seq \in Seqs : Insert(seq)
    \/ PopReady
    \/ \E seq \in Seqs \cup {None} : Reset(seq)

BufferSpec == BufferInit /\ [][BufferNext]_bufferVars

------------------------------------------------------------------------------
\* Type correctness of the buffer and of what it returned.
TypeOK ==
    /\ buffer \in [slots : [0..(Capacity - 1) -> Seqs \cup {None}],
                   next_seq : Seqs \cup {None},
                   highest_seq : Seqs \cup {None}]
    /\ returned \in Seq([seq : Seqs, frame : Seqs \cup {None}])

held == {buffer.slots[i] : i \in 0..(Capacity - 1)} \ {None}

Lead == seq_diff(buffer.highest_seq, buffer.next_seq)

\* A frame sits in its own slot and between the next and the highest
\* sequence number (`insert` drops what would alias a live slot).
NoAliasing ==
    \A i \in 0..(Capacity - 1) :
        LET s == buffer.slots[i]
        IN  s # None =>
              /\ buffer.next_seq # None /\ buffer.highest_seq # None
              /\ slot(s) = i
              /\ seq_diff(s, buffer.next_seq) \in 0..Lead

\* What pop_ready and missing trust, though highest_seq is a number that outlives
\* the packets: it is at most one behind the next number and less than a ring
\* ahead of it, and while it is not behind, its packet is still stored; so the
\* loop of pop_ready ends, and skips only gaps that a packet behind them shows.
HighestStored ==
    buffer.highest_seq # None =>
        /\ buffer.next_seq # None
        /\ Lead \in -1..(Capacity - 1)
        /\ Lead >= 0 => buffer.slots[slot(buffer.highest_seq)] = buffer.highest_seq

\* A frame is handed to the player under the number it arrived with, whatever
\* the sender numbered its packets (the slot does not record the number).
FrameMatches == \A k \in 1..Len(returned) : returned[k].frame \in {returned[k].seq, None}

\* After pop_ready the buffer waits only for a gap that a resend request will
\* name: while packets are held back, the next one is among the missing.
HeldBackIsMissing ==
    [][PopReady => (held' # {} => buffer.next_seq' \in missing(buffer)')]_bufferVars

\* The ring implements the set of held packets: a packet accepted is
\* delivered in order and never lost, overwritten or duplicated.
Order == INSTANCE PlayoutOrder
            WITH next <- buffer.next_seq, newest <- buffer.highest_seq, out <- returned
RefinesOrder == Order!Spec
=============================================================================
