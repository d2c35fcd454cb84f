------------------------------ MODULE AudioProofs ------------------------------
(***************************************************************************)
(* From the circle of sequence numbers to what the player is handed, for   *)
(* every circle, every capacity that divides it and every MaxLead below    *)
(* the capacity.                                                           *)
(*                                                                         *)
(* First the jitter buffer, whatever arrives.  BufferInv says where each   *)
(* stored frame lies: in its own slot, between the next and the highest    *)
(* sequence number.  Since that window is shorter than the ring, two       *)
(* numbers in it never share a slot, which is why slots need no labels.    *)
(*                                                                         *)
(* Then the audio task, for streams of any length.  There a frame is its   *)
(* absolute number, and the point is that the circle is never lapped: as   *)
(* long as every packet under way is less than half a circle from the next *)
(* one to deliver (Reach), the signed distance of the sequence numbers is  *)
(* the distance of the packets, the ring holds a window of the stream      *)
(* (Window), and what is handed over is in place.  Reach in turn holds     *)
(* because the newest packet to arrive is never far ahead of the next one  *)
(* to deliver (Near), however long an outage delays it.                    *)
(***************************************************************************)
EXTENDS JitterBuffer, AudioReceiver, TLAPS

------------------------------------------------------------------------------
(* The circle: the signed distance undoes the wrapping addition as long as *)
(* nothing is half a turn away.                                            *)

LEMMA PlusInSeqs ==
    ASSUME NEW s \in Seqs, NEW k \in 0..SeqSpace
    PROVE  Plus(s, k) \in Seqs
  BY SeqSpaceAssumption DEF Seqs, Plus

LEMMA DiffRange ==
    ASSUME NEW a \in Seqs, NEW b \in Seqs
    PROVE  /\ seq_diff(a, b) \in Int
           /\ 2 * seq_diff(a, b) < SeqSpace
           /\ 2 * seq_diff(a, b) >= 0 - SeqSpace
  BY SeqSpaceAssumption DEF Seqs, Turn, seq_diff

LEMMA DiffOfPlus ==
    ASSUME NEW s \in Seqs, NEW k \in Nat, 2 * k < SeqSpace
    PROVE  seq_diff(Plus(s, k), s) = k
  BY SeqSpaceAssumption DEF Seqs, Turn, seq_diff, Plus

LEMMA PlusOfDiff ==
    ASSUME NEW a \in Seqs, NEW b \in Seqs, seq_diff(a, b) >= 0
    PROVE  Plus(b, seq_diff(a, b)) = a
  BY SeqSpaceAssumption DEF Seqs, Turn, seq_diff, Plus

LEMMA DiffShift ==
    ASSUME NEW a \in Seqs, NEW b \in Seqs, NEW k \in 0..SeqSpace,
           2 * (seq_diff(a, b) - k) >= 0 - SeqSpace
    PROVE  seq_diff(a, Plus(b, k)) = seq_diff(a, b) - k
  BY SeqSpaceAssumption DEF Seqs, Turn, seq_diff, Plus

LEMMA NoSeqIsNone == None \notin Seqs /\ None \notin Nat
  BY NoneIsNoNumber, RingAssumption, SeqSpaceAssumption DEF Seqs

LEMMA NoMultiple ==
    ASSUME NEW C \in Nat, NEW m \in Int, C * m < C, C * m > 0 - C
    PROVE  m = 0
  <1>1. CASE m >= 1
    <2>1. C * m >= C
      BY <1>1
    <2> QED BY <2>1
  <1>2. CASE m <= -1
    <2>1. C * m <= 0 - C
      BY <1>2
    <2> QED BY <2>1
  <1> QED BY <1>1, <1>2

LEMMA Distributes ==
    ASSUME NEW C \in Int, NEW q \in Int, NEW k \in Int, NEW e \in {0, 1, -1}
    PROVE  C * q + e * (C * k) = C * (q + e * k) /\ q + e * k \in Int
  <1>1. CASE e = 0
    BY <1>1
  <1>2. CASE e = 1
    BY <1>2
  <1>3. CASE e = -1
    BY <1>3
  <1> QED BY <1>1, <1>2, <1>3

LEMMA SlotDivision ==
    ASSUME NEW s \in Seqs
    PROVE  /\ s \div Capacity \in Int
           /\ s = Capacity * (s \div Capacity) + slot(s)
           /\ slot(s) \in 0..(Capacity - 1)
  BY RingAssumption, SeqSpaceAssumption DEF Seqs, slot

LEMMA SlotInjective ==
    ASSUME NEW n \in Seqs, NEW i \in 0..(Capacity - 1), NEW j \in 0..(Capacity - 1),
           slot(Plus(n, i)) = slot(Plus(n, j))
    PROVE  i = j
  <1> DEFINE a == Plus(n, i)
             b == Plus(n, j)
             K == SeqSpace \div Capacity
  <1>1. a \in Seqs /\ b \in Seqs
    BY PlusInSeqs, RingAssumption, SeqSpaceAssumption
  <1>2. K \in Int /\ SeqSpace = Capacity * K
    BY RingAssumption, SeqSpaceAssumption
  <1>3. a - b = Capacity * ((a \div Capacity) - (b \div Capacity))
    BY <1>1, SlotDivision, RingAssumption
  <1>4. \/ a - b = i - j
        \/ a - b = i - j + SeqSpace
        \/ a - b = i - j - SeqSpace
    BY SeqSpaceAssumption, RingAssumption DEF Plus, Seqs
  <1>5. PICK e \in {0, 1, -1} : i - j = a - b + e * SeqSpace
    BY <1>4, <1>1, SeqSpaceAssumption, RingAssumption DEF Seqs
  <1> DEFINE m == ((a \div Capacity) - (b \div Capacity)) + e * K
  <1>6. m \in Int /\ i - j = Capacity * m
    <2> DEFINE q == (a \div Capacity) - (b \div Capacity)
    <2>1. q \in Int
      BY <1>1, SlotDivision
    <2>2. i - j = Capacity * q + e * (Capacity * K)
      BY <1>2, <1>3, <1>5
    <2>3. Capacity * q + e * (Capacity * K) = Capacity * (q + e * K) /\ q + e * K \in Int
      <3> HIDE DEF q, K
      <3> QED BY <2>1, <1>2, Distributes, RingAssumption
    <2> QED BY <2>2, <2>3
  <1>7. m = 0
    <2> HIDE DEF m
    <2> QED BY <1>6, NoMultiple, RingAssumption
  <1> QED BY <1>6, <1>7, RingAssumption

LEMMA DiffCompare ==
    ASSUME NEW a \in Seqs, NEW h \in Seqs, NEW n \in Seqs,
           seq_diff(a, n) \in 0..(Capacity - 1), seq_diff(h, n) \in -1..(Capacity - 1)
    PROVE  seq_diff(a, h) = seq_diff(a, n) - seq_diff(h, n)
  BY SeqSpaceAssumption, RingAssumption DEF Seqs, Turn, seq_diff

------------------------------------------------------------------------------
(***************************************************************************)
(* The inductive invariant: types, the window the stored frames lie in,    *)
(* and the packet that opened the window.                                  *)
(***************************************************************************)
Frames == [0..(Capacity - 1) -> Seqs \cup {None}]
Buffers == [slots : Frames, next_seq : Seqs \cup {None}, highest_seq : Seqs \cup {None}]

BufferInv == buffer \in Buffers /\ NoAliasing /\ HighestStored

LEMMA FunctionIsSeq ==
    ASSUME NEW n \in Nat, NEW S, NEW f \in [1..n -> S]
    PROVE  f \in Seq(S) /\ Len(f) = n
  OBVIOUS

LEMMA SlotRange == ASSUME NEW s \in Seqs PROVE slot(s) \in 0..(Capacity - 1)
  BY SlotDivision

\* A frame in the slot of the k-th packet of the window is that packet's.
LEMMA SlotHolds ==
    ASSUME BufferInv, buffer.next_seq # None, NEW k \in 0..(Capacity - 1),
           buffer.slots[slot(At(buffer, k))] # None
    PROVE  /\ buffer.slots[slot(At(buffer, k))] = At(buffer, k)
           /\ buffer.highest_seq # None
           /\ k <= Lead
  <1> DEFINE n == buffer.next_seq
             i == slot(At(buffer, k))
             s == buffer.slots[i]
             d == seq_diff(s, n)
  <1>1. n \in Seqs /\ At(buffer, k) \in Seqs /\ i \in 0..(Capacity - 1)
    BY PlusInSeqs, SlotRange, RingAssumption, SeqSpaceAssumption
       DEF BufferInv, Buffers, At
  <1>2. /\ s \in Seqs /\ slot(s) = i
        /\ buffer.highest_seq # None
        /\ d \in 0..Lead
    BY <1>1 DEF BufferInv, Buffers, Frames, NoAliasing
  <1>3. Lead \in -1..(Capacity - 1)
    BY <1>2 DEF BufferInv, HighestStored
  <1>4. d \in 0..(Capacity - 1)
    BY <1>2, <1>3, RingAssumption
  <1>5. Plus(n, d) = s
    BY <1>1, <1>2, <1>4, PlusOfDiff, RingAssumption
  <1>6. d = k
    BY <1>1, <1>2, <1>4, <1>5, SlotInjective DEF At
  <1> QED BY <1>2, <1>3, <1>5, <1>6, RingAssumption DEF At

\* pop_ready never runs past the highest sequence number.
LEMMA PopsBounded ==
    ASSUME BufferInv, NEW n \in 0..Capacity, StopsAfter(buffer, n), n # 0
    PROVE  /\ buffer.next_seq \in Seqs /\ buffer.highest_seq \in Seqs
           /\ Lead \in 0..(Capacity - 1)
           /\ n <= Lead + 1
  <1>1. buffer.next_seq \in Seqs /\ buffer.highest_seq \in Seqs
    BY DEF BufferInv, Buffers, HighestStored, StopsAfter
  <1>2. Lead \in -1..(Capacity - 1)
    BY <1>1, NoSeqIsNone DEF BufferInv, HighestStored
  <1> DEFINE k == Lead + 1
  <1>3. SUFFICES ASSUME k \in 0..(n - 1) PROVE FALSE
    BY <1>1, <1>2, RingAssumption
  <1>4. Filled(buffer, k) \/ GivesUp(buffer, k)
    BY <1>1, <1>3, NoSeqIsNone DEF StopsAfter
  <1>5. ~ GivesUp(buffer, k)
    <2>1. 2 * (Lead - k) >= 0 - SeqSpace /\ k \in 0..SeqSpace
      BY <1>2, RingAssumption, SeqSpaceAssumption
    <2>2. seq_diff(buffer.highest_seq, Plus(buffer.next_seq, k)) = Lead - k
      BY <2>1, <1>1, DiffShift DEF Lead
    <2> QED BY <2>2, <1>2, RingAssumption DEF GivesUp, At
  <1>6. Filled(buffer, k)
    BY <1>4, <1>5
  <1>7. k \in 0..(Capacity - 1)
    BY <1>6, <1>2, RingAssumption DEF Filled
  <1>8. k <= Lead
    BY <1>6, <1>7, <1>1, NoSeqIsNone, SlotHolds DEF Filled
  <1> QED BY <1>8, <1>2, RingAssumption

LEMMA InitBufferInv == BufferInit => BufferInv
  BY SMT, NoSeqIsNone, RingAssumption
  DEF BufferInit, NewBuffer, reset, EmptySlots, BufferInv, Buffers, Frames, NoAliasing,
      HighestStored

LEMMA ResetBufferInv ==
    ASSUME NEW seq \in Seqs \cup {None}, Reset(seq)
    PROVE  BufferInv'
  BY NoSeqIsNone, RingAssumption
  DEF Reset, reset, EmptySlots, BufferInv, Buffers, Frames, NoAliasing, HighestStored

\* What Insert does when the packet is inside the window.
LEMMA InsertBufferInv ==
    ASSUME BufferInv, NEW seq \in Seqs, Insert(seq)
    PROVE  BufferInv'
  <1> DEFINE n == IF buffer.next_seq = None THEN seq ELSE buffer.next_seq
             ahead == seq_diff(seq, n)
             h == buffer.highest_seq
  <1>1. n \in Seqs /\ ahead \in Int /\ slot(seq) \in 0..(Capacity - 1)
    BY DiffRange, SlotRange DEF BufferInv, Buffers
  <1>2. buffer.next_seq = None => h = None /\ \A i \in 0..(Capacity - 1) : buffer.slots[i] = None
    BY DEF BufferInv, NoAliasing, HighestStored
  <1>3. h # None => h \in Seqs /\ buffer.next_seq = n /\ Lead \in -1..(Capacity - 1)
    BY <1>2 DEF BufferInv, Buffers, HighestStored
  <1>4. CASE ahead < 0 \/ ahead >= Capacity
    <2>1. buffer' = [buffer EXCEPT !.next_seq = n]
      BY <1>4 DEF Insert, insert, Rejects
    <2>2. buffer'.next_seq = n /\ buffer'.slots = buffer.slots /\ buffer'.highest_seq = h
          /\ buffer' \in Buffers
      BY <2>1, <1>1 DEF BufferInv, Buffers
    <2>3. HighestStored'
      BY <2>2, <1>2, <1>3, NoSeqIsNone DEF BufferInv, HighestStored, Lead
    <2>4. NoAliasing'
      BY <2>2, <1>1, <1>2, NoSeqIsNone DEF BufferInv, NoAliasing, Lead
    <2> QED BY <2>2, <2>3, <2>4 DEF BufferInv
  <1>5. CASE ~ (ahead < 0 \/ ahead >= Capacity)
    <2> DEFINE h2 == IF h = None \/ seq_diff(seq, h) > 0 THEN seq ELSE h
    <2>1. buffer' = [slots |-> [buffer.slots EXCEPT ![slot(seq)] = seq],
                     next_seq |-> n, highest_seq |-> h2]
      BY <1>5 DEF Insert, insert, Rejects
    <2>2. ahead \in 0..(Capacity - 1)
      BY <1>1, <1>5, RingAssumption
    <2>3. h # None => seq_diff(seq, h) = ahead - Lead
      BY <1>1, <1>3, <2>2, DiffCompare DEF Lead
    <2>4. /\ h2 \in Seqs
          /\ seq_diff(h2, n) \in ahead..(Capacity - 1)
          /\ h # None => seq_diff(h2, n) >= Lead
          /\ h2 = seq \/ (h2 = h /\ h # None /\ Lead >= ahead)
      <3>1. CASE h = None \/ seq_diff(seq, h) > 0
        BY <3>1, <1>1, <1>3, <2>2, <2>3, RingAssumption
      <3>2. CASE ~ (h = None \/ seq_diff(seq, h) > 0)
        BY <3>2, <1>1, <1>3, <2>2, <2>3, RingAssumption DEF Lead
      <3> QED BY <3>1, <3>2
    <2>5. buffer' \in Buffers
      BY <2>1, <2>4, <1>1 DEF BufferInv, Buffers, Frames
    <2>6. Lead' = seq_diff(h2, n)
      BY <2>1 DEF Lead
    <2>7. \A i \in 0..(Capacity - 1) :
            buffer'.slots[i] = IF i = slot(seq) THEN seq ELSE buffer.slots[i]
      BY <2>1 DEF BufferInv, Buffers, Frames
    <2>8. NoAliasing'
      <3>1. SUFFICES ASSUME NEW i \in 0..(Capacity - 1), buffer'.slots[i] # None
                     PROVE  /\ slot(buffer'.slots[i]) = i
                            /\ seq_diff(buffer'.slots[i], n) \in 0..Lead'
        BY <2>1, <2>4, <1>1, NoSeqIsNone DEF NoAliasing
      <3>2. CASE i = slot(seq)
        BY <3>2, <2>2, <2>4, <2>6, <2>7, <1>1
      <3>3. CASE i # slot(seq)
        <4>1. /\ buffer'.slots[i] = buffer.slots[i] /\ buffer.slots[i] # None
              /\ buffer.next_seq = n /\ h # None
              /\ slot(buffer.slots[i]) = i
              /\ seq_diff(buffer.slots[i], n) \in 0..Lead
          BY <3>1, <3>3, <2>7 DEF BufferInv, NoAliasing
        <4> QED BY <4>1, <2>4, <2>6, <1>3
      <3> QED BY <3>2, <3>3
    <2>9. HighestStored'
      <3>1. buffer'.highest_seq = h2 /\ buffer'.next_seq = n /\ n # None
        BY <2>1, <1>1, NoSeqIsNone
      <3>2. buffer'.slots[slot(h2)] = h2
        <4>1. CASE h2 = seq
          BY <4>1, <2>7, <1>1
        <4>2. CASE h2 = h /\ h # None /\ Lead >= ahead
          <5>1. buffer.slots[slot(h)] = h /\ slot(h) \in 0..(Capacity - 1)
            BY <4>2, <1>3, <2>2, SlotRange DEF BufferInv, HighestStored
          <5>2. slot(seq) = slot(h) => seq = h
            <6>1. Plus(n, ahead) = seq /\ Plus(n, Lead) = h /\ Lead \in 0..(Capacity - 1)
              BY <4>2, <1>1, <1>3, <2>2, PlusOfDiff DEF Lead
            <6> QED BY <6>1, <1>1, <2>2, SlotInjective
          <5> QED BY <4>2, <5>1, <5>2, <2>7
        <4> QED BY <4>1, <4>2, <2>4
      <3>3. Lead' \in -1..(Capacity - 1)
        BY <2>2, <2>4, <2>6
      <3> QED BY <3>1, <3>2, <3>3 DEF HighestStored
    <2> QED BY <2>5, <2>8, <2>9 DEF BufferInv
  <1> QED BY <1>4, <1>5

\* The packet at distance d <= Lead keeps its slot unless the loop took it.
LEMMA ClearedSlots ==
    ASSUME BufferInv, NEW n \in 0..Capacity, StopsAfter(buffer, n), n # 0,
           NEW d \in 0..Lead
    PROVE  (\E k \in 0..(n - 1) : slot(At(buffer, k)) = slot(At(buffer, d))) <=> d < n
  <1>1. buffer.next_seq \in Seqs /\ Lead \in 0..(Capacity - 1) /\ n <= Lead + 1
    BY PopsBounded
  <1>2. \A k \in 0..(n - 1) : slot(At(buffer, k)) = slot(At(buffer, d)) => k = d
    BY <1>1, SlotInjective, RingAssumption DEF At
  <1> QED BY <1>1, <1>2, RingAssumption

LEMMA PopBufferInv ==
    ASSUME BufferInv, NEW n \in 0..Capacity, StopsAfter(buffer, n),
           buffer' = Popped(buffer, n)
    PROVE  BufferInv'
  <1>1. CASE n = 0
    <2>1. buffer' = buffer
      BY <1>1 DEF Popped
    <2> QED BY <2>1 DEF BufferInv, NoAliasing, HighestStored, Lead
  <1>2. CASE n # 0
    <2> DEFINE nx == buffer.next_seq
               h == buffer.highest_seq
    <2>1. nx \in Seqs /\ h \in Seqs /\ Lead \in 0..(Capacity - 1) /\ n <= Lead + 1
      BY <1>2, PopsBounded
    <2>2. /\ buffer'.next_seq = At(buffer, n)
          /\ buffer'.highest_seq = h
          /\ buffer'.slots = [i \in 0..(Capacity - 1) |->
                       IF \E k \in 0..(n - 1) : slot(At(buffer, k)) = i
                       THEN None ELSE buffer.slots[i]]
          /\ buffer' \in [slots : {buffer'.slots}, next_seq : {buffer'.next_seq},
                          highest_seq : {h}]
      BY <1>2 DEF Popped, BufferInv, Buffers
    <2>3. At(buffer, n) \in Seqs
      BY <2>1, PlusInSeqs, RingAssumption, SeqSpaceAssumption DEF At
    <2>4. buffer' \in Buffers
      <3>1. buffer.slots \in Frames
        BY DEF BufferInv, Buffers
      <3>2. buffer'.slots \in Frames
        BY <2>2, <3>1 DEF Frames
      <3> QED BY <2>1, <2>2, <2>3, <3>2 DEF Buffers
    <2>5. Lead' = Lead - n
      BY <2>1, <2>2, DiffShift, RingAssumption, SeqSpaceAssumption DEF Lead, At
    <2>6. NoAliasing'
      <3>1. SUFFICES ASSUME NEW i \in 0..(Capacity - 1), buffer'.slots[i] # None
                     PROVE  /\ slot(buffer'.slots[i]) = i
                            /\ seq_diff(buffer'.slots[i], buffer'.next_seq) \in 0..Lead'
        BY <2>1, <2>2, <2>3, NoSeqIsNone DEF NoAliasing
      <3> DEFINE s == buffer.slots[i]
                 d == seq_diff(s, nx)
      <3>2. /\ buffer'.slots[i] = s /\ s # None
            /\ ~ \E k \in 0..(n - 1) : slot(At(buffer, k)) = i
        BY <3>1, <2>2
      <3>3. s \in Seqs /\ slot(s) = i /\ d \in 0..Lead
        BY <3>2 DEF BufferInv, NoAliasing, Buffers, Frames
      <3>4. At(buffer, d) = s
        BY <3>3, <2>1, PlusOfDiff DEF At
      <3>5. d >= n
        BY <3>2, <3>3, <3>4, <1>2, <2>1, ClearedSlots
      <3>6. seq_diff(s, At(buffer, n)) = d - n
        BY <3>3, <3>5, <2>1, DiffShift, RingAssumption, SeqSpaceAssumption DEF At
      <3> QED BY <3>2, <3>3, <3>5, <3>6, <2>1, <2>2, <2>5
    <2>7. HighestStored'
      <3>1. Lead' \in -1..(Capacity - 1)
        BY <2>1, <2>5, RingAssumption
      <3>2. ASSUME Lead' >= 0 PROVE buffer'.slots[slot(h)] = h
        <4>1. Lead >= n /\ At(buffer, Lead) = h
          BY <3>2, <2>1, <2>5, PlusOfDiff DEF At, Lead
        <4>2. ~ \E k \in 0..(n - 1) : slot(At(buffer, k)) = slot(h)
          BY <4>1, <1>2, <2>1, ClearedSlots
        <4>3. buffer.slots[slot(h)] = h
          BY <2>1, NoSeqIsNone DEF BufferInv, HighestStored
        <4> QED BY <4>2, <4>3, <2>1, <2>2, SlotRange
      <3> QED BY <3>1, <3>2, <2>1, <2>2, <2>3, NoSeqIsNone DEF HighestStored
    <2> QED BY <2>4, <2>6, <2>7 DEF BufferInv
  <1> QED BY <1>1, <1>2

\* Each packet handed over is the one its number names.
LEMMA PopMatches ==
    ASSUME BufferInv, NEW n \in 0..Capacity, StopsAfter(buffer, n)
    PROVE  \A k \in 1..n : /\ Deliveries(buffer, n)[k].seq \in Seqs
                           /\ Deliveries(buffer, n)[k].frame
                                 \in {Deliveries(buffer, n)[k].seq, None}
  <1> SUFFICES ASSUME NEW k \in 1..n
               PROVE  /\ At(buffer, k - 1) \in Seqs
                      /\ buffer.slots[slot(At(buffer, k - 1))] \in {At(buffer, k - 1), None}
    BY DEF Deliveries
  <1>1. buffer.next_seq \in Seqs /\ k - 1 \in 0..(Capacity - 1)
    BY PopsBounded, RingAssumption
  <1>2. At(buffer, k - 1) \in Seqs
    BY <1>1, PlusInSeqs, RingAssumption, SeqSpaceAssumption DEF At
  <1> QED BY <1>1, <1>2, SlotHolds, NoSeqIsNone

LEMMA NextBufferInv == BufferInv /\ [BufferNext]_bufferVars => BufferInv'
  <1> SUFFICES ASSUME BufferInv, [BufferNext]_bufferVars PROVE BufferInv'
    OBVIOUS
  <1>1. ASSUME NEW seq \in Seqs, Insert(seq) PROVE BufferInv'
    BY <1>1, InsertBufferInv
  <1>2. ASSUME PopReady PROVE BufferInv'
    BY <1>2, PopBufferInv DEF PopReady
  <1>3. ASSUME NEW seq \in Seqs \cup {None}, Reset(seq) PROVE BufferInv'
    BY <1>3, ResetBufferInv
  <1>4. CASE UNCHANGED bufferVars
    BY <1>4 DEF bufferVars, BufferInv, NoAliasing, HighestStored, Lead
  <1> QED BY <1>1, <1>2, <1>3, <1>4 DEF BufferNext

\* The stored frames lie in their own slots, inside the window between the
\* next and the highest sequence number, whatever the sender sends.
THEOREM WindowTheorem == BufferSpec => []NoAliasing
  <1>1. BufferInv => NoAliasing
    BY DEF BufferInv
  <1> QED BY <1>1, InitBufferInv, NextBufferInv, PTL DEF BufferSpec

\* highest_seq never runs a ring ahead, never falls behind by more than one, and
\* names a packet that is stored, in whatever order pop_ready, late packets and
\* reset empty the slots around it.
THEOREM HighestTheorem == BufferSpec => []HighestStored
  <1>1. BufferInv => HighestStored
    BY DEF BufferInv
  <1> QED BY <1>1, InitBufferInv, NextBufferInv, PTL DEF BufferSpec

\* Type correctness, and no frame is ever played under another packet's
\* number although the slot does not record which packet it holds.
THEOREM TypesAndFrames == BufferSpec => [](TypeOK /\ FrameMatches)
  <1> DEFINE OutOK == TypeOK /\ FrameMatches
  <1>1. BufferInit => OutOK
    BY InitBufferInv DEF BufferInit, TypeOK, FrameMatches, BufferInv, Buffers, Frames
  <1>2. BufferInv /\ OutOK /\ [BufferNext]_bufferVars /\ BufferInv' => OutOK'
    <2> SUFFICES ASSUME BufferInv, OutOK, [BufferNext]_bufferVars, BufferInv' PROVE OutOK'
      OBVIOUS
    <2>1. buffer' \in [slots : [0..(Capacity - 1) -> Seqs \cup {None}],
                       next_seq : Seqs \cup {None}, highest_seq : Seqs \cup {None}]
      BY DEF BufferInv, Buffers, Frames
    <2>2. CASE returned' = <<>>
      BY <2>1, <2>2 DEF TypeOK, FrameMatches
    <2>3. CASE PopReady
      <3>1. PICK n \in 0..Capacity : StopsAfter(buffer, n) /\ returned' = Deliveries(buffer, n)
        BY <2>3 DEF PopReady
      <3>2. returned' = [k \in 1..n |-> [seq |-> At(buffer, k - 1),
                                    frame |-> buffer.slots[slot(At(buffer, k - 1))]]]
        BY <3>1 DEF Deliveries
      <3>3. \A k \in 1..n : /\ returned'[k].seq \in Seqs
                            /\ returned'[k].frame \in {returned'[k].seq, None}
        BY <3>1, PopMatches
      <3> DEFINE D == [seq : Seqs, frame : Seqs \cup {None}]
      <3>4. returned' \in [1..n -> D] /\ n \in Nat
        <4>1. \A k \in 1..n : returned'[k] \in D
          <5> TAKE k \in 1..n
          <5>1. returned'[k] = [seq |-> At(buffer, k - 1),
                           frame |-> buffer.slots[slot(At(buffer, k - 1))]]
            BY <3>2
          <5> QED BY <5>1, <3>3
        <4> HIDE DEF D
        <4> QED BY <3>2, <4>1, RingAssumption
      <3>5. returned' \in Seq(D) /\ Len(returned') = n
        <4> HIDE DEF D
        <4> QED BY <3>4, FunctionIsSeq
      <3> QED BY <2>1, <3>3, <3>5 DEF TypeOK, FrameMatches
    <2>4. CASE UNCHANGED bufferVars
      BY <2>1, <2>4 DEF bufferVars, TypeOK, FrameMatches
    <2> QED BY <2>2, <2>3, <2>4 DEF BufferNext, Insert, Reset
  <1> QED BY <1>1, <1>2, InitBufferInv, NextBufferInv, PTL DEF BufferSpec

\* What pop_ready leaves behind, in terms of the buffer it found.
LEMMA PopLeaves ==
    ASSUME BufferInv, BufferInv', NEW n \in 0..Capacity, StopsAfter(buffer, n),
           buffer' = Popped(buffer, n), buffer.highest_seq # None
    PROVE  /\ buffer'.highest_seq = buffer.highest_seq
           /\ buffer'.next_seq = At(buffer, n)
           /\ ~ Filled(buffer, n) /\ ~ GivesUp(buffer, n)
           /\ \A i \in 0..(Capacity - 1) :
                 buffer'.slots[i] \in {None, buffer.slots[i]}
  <1>1. buffer.next_seq \in Seqs
    BY DEF BufferInv, Buffers, HighestStored
  <1>2. ~ Filled(buffer, n) /\ ~ GivesUp(buffer, n)
    BY DEF StopsAfter
  <1>3. CASE n = 0
    <2>1. At(buffer, 0) = buffer.next_seq
      BY <1>1, SeqSpaceAssumption DEF At, Plus, Seqs
    <2> QED BY <1>2, <1>3, <2>1 DEF Popped
  <1>4. CASE n # 0
    BY <1>2, <1>4 DEF Popped, BufferInv, Buffers
  <1> QED BY <1>3, <1>4

\* While packets are held back after a drain, the retransmit requester is
\* told the very packet they wait for.
THEOREM MissingTheorem == BufferSpec => HeldBackIsMissing
  <1>1. BufferInv /\ BufferInv' /\ [BufferNext]_bufferVars
          => [PopReady => (held' # {} => buffer.next_seq' \in missing(buffer)')]_bufferVars
    <2> SUFFICES ASSUME BufferInv, BufferInv', PopReady, held' # {}
                 PROVE  buffer'.next_seq \in missing(buffer)'
      OBVIOUS
    <2>1. PICK n \in 0..Capacity : StopsAfter(buffer, n) /\ buffer' = Popped(buffer, n)
      BY DEF PopReady
    <2>2. PICK i \in 0..(Capacity - 1) : buffer'.slots[i] # None
      BY DEF held
    <2>3. buffer'.next_seq \in Seqs /\ buffer'.highest_seq \in Seqs /\ Lead' \in 0..(Capacity - 1)
      <3>1. /\ buffer'.next_seq # None /\ buffer'.highest_seq # None
            /\ seq_diff(buffer'.slots[i], buffer'.next_seq) \in 0..Lead'
        BY <2>2 DEF BufferInv, NoAliasing
      <3> QED BY <3>1, RingAssumption DEF BufferInv, Buffers, HighestStored
    <2>4. buffer.highest_seq # None
      BY <2>1, <2>3, NoSeqIsNone DEF Popped, BufferInv, Buffers
    <2>5. /\ buffer'.next_seq = At(buffer, n)
          /\ buffer'.highest_seq = buffer.highest_seq
          /\ ~ Filled(buffer, n)
          /\ \A j \in 0..(Capacity - 1) : buffer'.slots[j] \in {None, buffer.slots[j]}
      BY <2>1, <2>4, PopLeaves
    <2>6. n < Capacity
      <3>1. CASE n = 0
        BY <3>1, RingAssumption
      <3>2. CASE n # 0
        <4>1. buffer.next_seq \in Seqs /\ buffer.highest_seq \in Seqs
              /\ Lead \in 0..(Capacity - 1) /\ n <= Lead + 1
          BY <2>1, <3>2, PopsBounded
        <4>2. Lead' = Lead - n
          BY <4>1, <2>5, DiffShift, RingAssumption, SeqSpaceAssumption DEF Lead, At
        <4> QED BY <4>1, <4>2, <2>3, RingAssumption
      <3> QED BY <3>1, <3>2
    <2>7. buffer'.slots[slot(buffer'.next_seq)] = None
      BY <2>3, <2>5, <2>6, SlotRange DEF Filled
    <2>8. At(buffer', 0) = buffer'.next_seq
      BY <2>3, SeqSpaceAssumption DEF At, Plus, Seqs
    <2>9. 0 \in 0..seq_diff(buffer'.highest_seq, buffer'.next_seq)
      BY <2>3 DEF Lead
    <2> QED BY <2>3, <2>7, <2>8, <2>9, NoSeqIsNone DEF missing
  <1> QED BY <1>1, InitBufferInv, NextBufferInv, PTL DEF BufferSpec, HeldBackIsMissing

------------------------------------------------------------------------------
(***************************************************************************)
(* The ring implements the set of held packets.                            *)
(***************************************************************************)
LEMMA HeldAt ==
    ASSUME BufferInv, buffer.next_seq # None, NEW k \in 0..(Capacity - 1)
    PROVE  /\ At(buffer, k) \in held <=> buffer.slots[slot(At(buffer, k))] # None
           /\ buffer.slots[slot(At(buffer, k))] \in {At(buffer, k), None}
  <1>1. buffer.next_seq \in Seqs
    BY DEF BufferInv, Buffers
  <1>2. At(buffer, k) \in Seqs /\ slot(At(buffer, k)) \in 0..(Capacity - 1)
    BY <1>1, PlusInSeqs, SlotRange, RingAssumption, SeqSpaceAssumption DEF At
  <1>3. ASSUME buffer.slots[slot(At(buffer, k))] # None
        PROVE  buffer.slots[slot(At(buffer, k))] = At(buffer, k)
    BY <1>3, SlotHolds
  <1>4. ASSUME At(buffer, k) \in held
        PROVE  buffer.slots[slot(At(buffer, k))] # None
    <2>1. PICK i \in 0..(Capacity - 1) : buffer.slots[i] = At(buffer, k) /\ buffer.slots[i] # None
      BY <1>4 DEF held
    <2>2. slot(At(buffer, k)) = i
      BY <2>1 DEF BufferInv, NoAliasing
    <2> QED BY <2>1, <2>2
  <1>5. ASSUME buffer.slots[slot(At(buffer, k))] # None PROVE At(buffer, k) \in held
    BY <1>5, <1>3, <1>2 DEF held
  <1> QED BY <1>3, <1>4, <1>5

LEMMA InsertRefines ==
    ASSUME BufferInv, NEW seq \in Seqs, Insert(seq)
    PROVE  Order!Arrive(seq)
  <1> DEFINE n == IF buffer.next_seq = None THEN seq ELSE buffer.next_seq
             ahead == seq_diff(seq, n)
             h == buffer.highest_seq
  <1>1. n \in Seqs /\ ahead \in Int /\ slot(seq) \in 0..(Capacity - 1) /\ seq # None
    BY DiffRange, SlotRange, NoSeqIsNone DEF BufferInv, Buffers
  <1>2. CASE ahead < 0 \/ ahead >= Capacity
    <2>1. buffer' = [buffer EXCEPT !.next_seq = n] /\ returned' = <<>>
      BY <1>2 DEF Insert, insert, Rejects
    <2>2. buffer'.next_seq = n /\ buffer'.slots = buffer.slots /\ buffer'.highest_seq = h
      BY <2>1 DEF BufferInv, Buffers
    <2>3. held' = held /\ ahead \notin 0..(Capacity - 1)
      BY <2>2, <1>1, <1>2, RingAssumption DEF held
    <2> QED BY <2>1, <2>2, <2>3 DEF Order!Arrive, Order!seq_diff, Order!Turn, seq_diff, Turn
  <1>3. CASE ~ (ahead < 0 \/ ahead >= Capacity)
    <2>1. buffer' = [slots |-> [buffer.slots EXCEPT ![slot(seq)] = seq],
                     next_seq |-> n,
                     highest_seq |-> IF h = None \/ seq_diff(seq, h) > 0 THEN seq ELSE h]
          /\ returned' = <<>>
      BY <1>3 DEF Insert, insert, Rejects
    <2>2. ahead \in 0..(Capacity - 1)
      BY <1>1, <1>3, RingAssumption
    <2>3. \A i \in 0..(Capacity - 1) :
            buffer'.slots[i] = IF i = slot(seq) THEN seq ELSE buffer.slots[i]
      BY <2>1 DEF BufferInv, Buffers, Frames
    <2>4. buffer.slots[slot(seq)] \in {None, seq}
      <3>1. CASE buffer.next_seq = None
        BY <3>1, <1>1 DEF BufferInv, NoAliasing
      <3>2. CASE buffer.next_seq # None
        <4>1. At(buffer, ahead) = seq
          BY <3>2, <1>1, <2>2, PlusOfDiff DEF At
        <4> QED BY <3>2, <4>1, <2>2, HeldAt
      <3> QED BY <3>1, <3>2
    <2>5. held' = held \cup {seq}
      BY <2>3, <2>4, <1>1 DEF held
    <2> QED BY <2>1, <2>2, <2>5 DEF Order!Arrive, Order!seq_diff, Order!Turn, seq_diff, Turn
  <1> QED BY <1>2, <1>3

LEMMA PopRefines == ASSUME BufferInv, PopReady PROVE Order!Release
  <1>1. PICK n \in 0..Capacity : /\ StopsAfter(buffer, n)
                                 /\ buffer' = Popped(buffer, n)
                                 /\ returned' = Deliveries(buffer, n)
    BY DEF PopReady
  <1>2. CASE n = 0
    <2>1. buffer' = buffer
      BY <1>1, <1>2 DEF Popped
    <2>2. /\ \A e : returned' = [k \in 1..n |-> e[k]]
          /\ held' = held
          /\ 0..(n - 1) = {}
      BY <1>1, <1>2, <2>1 DEF Deliveries, held
    <2> QED BY <1>1, <1>2, <2>1, <2>2 DEF Order!Release, Deliveries
  <1>3. CASE n # 0
    <2>1. buffer.next_seq \in Seqs /\ buffer.highest_seq \in Seqs
          /\ Lead \in 0..(Capacity - 1) /\ n <= Lead + 1
      BY <1>1, <1>3, PopsBounded
    <2>2. buffer.next_seq # None /\ buffer.highest_seq # None
      BY <2>1, NoSeqIsNone
    <2>3. /\ buffer'.highest_seq = buffer.highest_seq
          /\ buffer'.next_seq = At(buffer, n)
          /\ \A i \in 0..(Capacity - 1) :
                buffer'.slots[i] = IF \E k \in 0..(n - 1) : slot(At(buffer, k)) = i
                                   THEN None ELSE buffer.slots[i]
      BY <1>1, <1>3 DEF Popped, BufferInv, Buffers
    <2>4. \A k \in 0..(n - 1) : k \in 0..(Capacity - 1)
      BY RingAssumption
    <2>5. \A k \in 0..(n - 1) :
            buffer.slots[slot(At(buffer, k))]
               = IF At(buffer, k) \in held THEN At(buffer, k) ELSE None
      BY <2>2, <2>4, HeldAt
    <2>6. \A k \in 0..(n - 1) : At(buffer, k) \in held \/ GivesUp(buffer, k)
      BY <1>1, <2>2, <2>4, HeldAt DEF StopsAfter, Filled
    <2>7. held' = held \ {At(buffer, k) : k \in 0..(n - 1)}
      <3>1. ASSUME NEW i \in 0..(Capacity - 1), buffer.slots[i] # None
            PROVE  (\E k \in 0..(n - 1) : slot(At(buffer, k)) = i)
                      <=> buffer.slots[i] \in {At(buffer, k) : k \in 0..(n - 1)}
        <4>1. slot(buffer.slots[i]) = i
          BY <3>1 DEF BufferInv, NoAliasing
        <4>2. ASSUME NEW k \in 0..(n - 1), slot(At(buffer, k)) = i
              PROVE  buffer.slots[i] = At(buffer, k)
          BY <4>2, <3>1, <2>2, <2>4, HeldAt
        <4> QED BY <4>1, <4>2
      <3> QED BY <2>3, <3>1 DEF held
    <2>8. returned' = [k \in 1..n |->
                    [seq |-> At(buffer, k - 1),
                     frame |-> IF At(buffer, k - 1) \in held
                               THEN At(buffer, k - 1) ELSE None]]
      <3>1. \A k \in 1..n : k - 1 \in 0..(n - 1)
        BY RingAssumption
      <3> QED BY <1>1, <2>5, <3>1 DEF Deliveries
    <2> QED BY <1>3, <2>2, <2>3, <2>6, <2>7, <2>8
        DEF Order!Release, Order!Plus, Plus, At, GivesUp,
            Order!seq_diff, Order!Turn, seq_diff, Turn
  <1> QED BY <1>2, <1>3

\* The ring of Capacity unlabelled slots implements the set of held packets:
\* whatever arrives in whatever order, an accepted packet is delivered once,
\* in order and under its own number, and only packets that are not there are
\* reported lost.
THEOREM RingImplementsSet == BufferSpec => RefinesOrder
  <1>1. BufferInit => Order!Init
    BY DEF BufferInit, Order!Init, NewBuffer, reset, EmptySlots, held
  <1>2. BufferInv /\ [BufferNext]_bufferVars => [Order!Next]_Order!vars
    <2> SUFFICES ASSUME BufferInv, [BufferNext]_bufferVars PROVE [Order!Next]_Order!vars
      OBVIOUS
    <2>1. ASSUME NEW seq \in Seqs, Insert(seq) PROVE Order!Next
      BY <2>1, InsertRefines DEF Order!Next, Order!Seqs, Seqs
    <2>2. ASSUME PopReady PROVE Order!Next
      BY <2>2, PopRefines DEF Order!Next
    <2>3. ASSUME NEW seq \in Seqs \cup {None}, Reset(seq) PROVE Order!Next
      BY <2>3 DEF Reset, reset, EmptySlots, held, Order!Next, Order!Restart, Order!Seqs, Seqs
    <2>4. CASE UNCHANGED bufferVars
      BY <2>4 DEF bufferVars, Order!vars, held
    <2> QED BY <2>1, <2>2, <2>3, <2>4 DEF BufferNext
  <1> QED BY <1>1, <1>2, InitBufferInv, NextBufferInv, PTL DEF BufferSpec, RefinesOrder, Order!Spec

------------------------------------------------------------------------------
(***************************************************************************)
(* Positions in the stream and their places on the circle.                 *)
(***************************************************************************)

\* The turn of the circle a packet is on.
LEMMA SeqOfTurn ==
    ASSUME NEW p \in Int
    PROVE  /\ (Start + p) \div SeqSpace \in Int
           /\ SeqOf(p) \in Seqs
           /\ Start + p = SeqSpace * ((Start + p) \div SeqSpace) + SeqOf(p)
  BY AudioAssumption, SeqSpaceAssumption DEF Seqs, SeqOf

\* Numbers on the circle that differ by a number of turns are equal.
LEMMA SameSeq ==
    ASSUME NEW a \in Seqs, NEW b \in Seqs, NEW m \in Int, a - b = SeqSpace * m
    PROVE  a = b
  <1>1. m = 0
    BY NoMultiple, SeqSpaceAssumption DEF Seqs
  <1> QED BY <1>1, SeqSpaceAssumption DEF Seqs

LEMMA PlusOfSeq ==
    ASSUME NEW p \in Int, NEW k \in 0..SeqSpace
    PROVE  Plus(SeqOf(p), k) = SeqOf(p + k)
  <1> DEFINE u == (Start + p) \div SeqSpace
             v == (Start + (p + k)) \div SeqSpace
             a == Plus(SeqOf(p), k)
             b == SeqOf(p + k)
  <1>1. u \in Int /\ v \in Int /\ SeqOf(p) \in Seqs /\ b \in Seqs
    BY SeqOfTurn, SeqSpaceAssumption
  <1>2. Start + p = SeqSpace * u + SeqOf(p) /\ Start + (p + k) = SeqSpace * v + b
    BY SeqOfTurn, SeqSpaceAssumption
  <1>3. a \in Seqs
    BY <1>1, PlusInSeqs
  <1>4. Start \in Int
    BY AudioAssumption DEF Seqs
  <1> HIDE DEF u, v, b
  <1>5. a - b = SeqSpace * (v - u) \/ a - b = SeqSpace * (v - u - 1)
    <2>1. SeqSpace * (v - u) = SeqSpace * v - SeqSpace * u
          /\ SeqSpace * (v - u - 1) = SeqSpace * v - SeqSpace * u - SeqSpace
      BY <1>1, SeqSpaceAssumption
    <2>2. a = SeqOf(p) + k \/ a = SeqOf(p) + k - SeqSpace
      BY DEF Plus
    <2> HIDE DEF a
    <2> QED BY <1>1, <1>2, <1>3, <1>4, <2>1, <2>2, SeqSpaceAssumption DEF Seqs
  <1> HIDE DEF a
  <1>6. a = b
    BY <1>1, <1>3, <1>5, SameSeq
  <1> QED BY <1>6 DEF a, b

\* The signed distance of two packets less than half a circle apart.
LEMMA DiffOfSeq ==
    ASSUME NEW p \in Int, NEW q \in Int, 2 * (p - q) < SeqSpace, 2 * (q - p) <= SeqSpace
    PROVE  seq_diff(SeqOf(p), SeqOf(q)) = p - q
  <1>1. SeqOf(p) \in Seqs /\ SeqOf(q) \in Seqs
    BY SeqOfTurn
  <1>2. CASE p >= q
    <2>1. p - q \in Nat /\ p - q \in 0..SeqSpace /\ q + (p - q) = p
      BY <1>2, SeqSpaceAssumption
    <2>2. SeqOf(p) = Plus(SeqOf(q), p - q)
      BY <2>1, PlusOfSeq
    <2> QED BY <1>1, <2>1, <2>2, DiffOfPlus
  <1>3. CASE p < q
    <2>1. q - p \in 0..SeqSpace /\ p + (q - p) = q
      BY <1>3, SeqSpaceAssumption
    <2>2. SeqOf(q) = Plus(SeqOf(p), q - p)
      BY <2>1, PlusOfSeq
    <2> QED BY <1>1, <1>3, <2>2, SeqSpaceAssumption DEF Seqs, Plus, Turn, seq_diff
  <1> QED BY <1>2, <1>3

LEMMA SlotOfSeq ==
    ASSUME NEW p \in Int
    PROVE  /\ slot(SeqOf(p)) \in 0..(Capacity - 1)
           /\ \E m \in Int : Start + p = Capacity * m + slot(SeqOf(p))
  <1> DEFINE K == SeqSpace \div Capacity
             u == (Start + p) \div SeqSpace
             s == SeqOf(p)
             v == s \div Capacity
  <1>1. K \in Int /\ SeqSpace = Capacity * K
    BY RingAssumption, SeqSpaceAssumption
  <1>2. u \in Int /\ s \in Seqs /\ Start + p = SeqSpace * u + s
    BY SeqOfTurn
  <1>3. v \in Int /\ s = Capacity * v + slot(s) /\ slot(s) \in 0..(Capacity - 1)
    BY <1>2, SlotDivision
  <1>4. Capacity * (K * u + v) + slot(s) = (Capacity * K) * u + s
    <2> HIDE DEF K, u, v, s
    <2> QED BY <1>1, <1>2, <1>3, RingAssumption
  <1> HIDE DEF K, u, v
  <1>5. K * u + v \in Int /\ Start + p = Capacity * (K * u + v) + slot(s)
    BY <1>1, <1>2, <1>3, <1>4
  <1> QED BY <1>3, <1>5

\* Two packets less than a ring apart never share a slot.
LEMMA OneSlot ==
    ASSUME NEW p \in Int, NEW q \in Int, p - q < Capacity, q - p < Capacity,
           slot(SeqOf(p)) = slot(SeqOf(q))
    PROVE  p = q
  <1>1. PICK m \in Int : Start + p = Capacity * m + slot(SeqOf(p))
    BY SlotOfSeq
  <1>2. PICK k \in Int : Start + q = Capacity * k + slot(SeqOf(q))
    BY SlotOfSeq
  <1>3. slot(SeqOf(p)) \in Int /\ Start \in Int /\ Capacity \in Nat
    BY SlotOfSeq, AudioAssumption, RingAssumption DEF Seqs
  <1>4. Capacity * (m - k) = Capacity * m - Capacity * k
    BY <1>3
  <1>5. p - q = Capacity * (m - k)
    BY <1>1, <1>2, <1>3, <1>4
  <1>6. m - k = 0
    BY <1>3, <1>5, NoMultiple
  <1> QED BY <1>3, <1>5, <1>6

------------------------------------------------------------------------------
(***************************************************************************)
(* The ring, told in positions in the stream.                              *)
(***************************************************************************)
AudioBuffers ==
    [slots : [0..(Capacity - 1) -> Nat \cup {None}],
     next_seq : Seqs \cup {None}, highest_seq : Seqs \cup {None}]

\* Buffer b delivers packet p next, holds no packet but some of p..h, each in
\* its own slot, and has received h since its last reset.
Window(b, p, h) ==
    /\ b \in AudioBuffers
    /\ b.next_seq = SeqOf(p)
    /\ b.highest_seq # None =>
          h \in (p - 1)..(p + Capacity - 1) /\ b.highest_seq = SeqOf(h)
    /\ \A i \in 0..(Capacity - 1) :
          b.slots[i] # None =>
             b.highest_seq # None /\ b.slots[i] \in p..h /\ slot(SeqOf(b.slots[i])) = i

\* A packet outside of the window changes nothing.
LEMMA InsertOutside ==
    ASSUME NEW b, NEW p \in Nat, NEW h \in Nat, NEW q \in Nat, Window(b, p, h),
           2 * (q - p) <= SeqSpace, 2 * (p - q) <= SeqSpace,
           q < p \/ q - p >= Capacity
    PROVE  insert(b, SeqOf(q), q) = b
  <1>1. b.next_seq = SeqOf(p) /\ SeqOf(p) \in Seqs /\ SeqOf(q) \in Seqs
        /\ b.next_seq # None
    BY SeqOfTurn, NoSeqIsNone DEF Window
  <1>2. Rejects(seq_diff(SeqOf(q), SeqOf(p)))
    <2>1. CASE 2 * (q - p) < SeqSpace
      <3>1. seq_diff(SeqOf(q), SeqOf(p)) = q - p
        BY <2>1, DiffOfSeq
      <3> QED BY <3>1, RingAssumption DEF Rejects
    <2>2. CASE ~ (2 * (q - p) < SeqSpace)
      <3>1. 2 * (p - q) < SeqSpace /\ 2 * (q - p) <= SeqSpace
        BY <2>2, SeqSpaceAssumption
      <3>2. seq_diff(SeqOf(p), SeqOf(q)) = p - q
        BY <3>1, DiffOfSeq
      <3>3. 2 * (q - p) = SeqSpace
        BY <2>2, SeqSpaceAssumption
      <3>4. seq_diff(SeqOf(q), SeqOf(p)) < 0
        BY <1>1, <3>2, <3>3, SeqSpaceAssumption DEF seq_diff, Turn, Seqs
      <3> QED BY <3>4 DEF Rejects
    <2> QED BY <2>1, <2>2
  <1>3. insert(b, SeqOf(q), q) = [b EXCEPT !.next_seq = b.next_seq]
    BY <1>1, <1>2 DEF insert
  <1> QED BY <1>3 DEF Window, AudioBuffers

\* A packet inside of it is stored, and stretches it.
LEMMA InsertInside ==
    ASSUME NEW b, NEW p \in Nat, NEW h \in Nat, NEW q \in Nat, Window(b, p, h),
           q - p \in 0..(Capacity - 1)
    PROVE  \E g \in Nat :
              /\ Window(insert(b, SeqOf(q), q), p, g)
              /\ insert(b, SeqOf(q), q).highest_seq # None
              /\ g >= q /\ (g = q \/ (b.highest_seq # None /\ g = h))
  <1> DEFINE c == insert(b, SeqOf(q), q)
             g == IF b.highest_seq = None \/ q > h THEN q ELSE h
  <1>1. /\ b.next_seq = SeqOf(p) /\ b.next_seq # None
        /\ SeqOf(p) \in Seqs /\ SeqOf(q) \in Seqs /\ SeqOf(h) \in Seqs
    BY SeqOfTurn, NoSeqIsNone DEF Window
  <1>2. seq_diff(SeqOf(q), SeqOf(p)) = q - p
    <2>1. 2 * (q - p) < SeqSpace /\ 2 * (p - q) <= SeqSpace
      BY RingAssumption, SeqSpaceAssumption
    <2> QED BY <2>1, DiffOfSeq
  <1>3. b.highest_seq # None =>
           /\ b.highest_seq = SeqOf(h) /\ h \in (p - 1)..(p + Capacity - 1)
           /\ seq_diff(SeqOf(q), SeqOf(h)) = q - h
    <2> SUFFICES ASSUME b.highest_seq # None
                 PROVE  /\ b.highest_seq = SeqOf(h) /\ h \in (p - 1)..(p + Capacity - 1)
                        /\ seq_diff(SeqOf(q), SeqOf(h)) = q - h
      OBVIOUS
    <2>1. b.highest_seq = SeqOf(h) /\ h \in (p - 1)..(p + Capacity - 1)
      BY DEF Window
    <2>2. 2 * (q - h) < SeqSpace /\ 2 * (h - q) <= SeqSpace
      BY <2>1, RingAssumption, SeqSpaceAssumption
    <2> QED BY <2>1, <2>2, DiffOfSeq
  <1>4. ~ Rejects(q - p)
    BY RingAssumption DEF Rejects
  <1>5. c = [slots |-> [b.slots EXCEPT ![slot(SeqOf(q))] = q],
             next_seq |-> SeqOf(p), highest_seq |-> SeqOf(g)]
    <2>1. CASE b.highest_seq = None
      BY <1>1, <1>2, <1>4, <2>1 DEF insert
    <2>2. CASE b.highest_seq # None
      BY <1>1, <1>2, <1>3, <1>4, <2>2 DEF insert
    <2> QED BY <2>1, <2>2
  <1>6. g \in Nat /\ g >= q /\ g \in (p - 1)..(p + Capacity - 1)
        /\ (b.highest_seq # None => g >= h) /\ (g = q \/ (b.highest_seq # None /\ g = h))
    <2>1. CASE b.highest_seq = None
      BY <2>1, RingAssumption
    <2>2. CASE b.highest_seq # None
      BY <2>2, <1>3, RingAssumption
    <2> QED BY <2>1, <2>2
  <1> HIDE DEF g, c
  <1>7. SeqOf(g) \in Seqs /\ SeqOf(g) # None
    BY <1>6, SeqOfTurn, NoSeqIsNone
  <1>8. slot(SeqOf(q)) \in 0..(Capacity - 1)
    BY SlotOfSeq
  <1> DEFINE S == 0..(Capacity - 1)
  <1>9. b.slots \in [S -> Nat \cup {None}] /\ c \in AudioBuffers
    <2>1. b.slots \in [S -> Nat \cup {None}]
      BY DEF Window, AudioBuffers
    <2>2. c.slots \in [S -> Nat \cup {None}]
      BY <1>5, <1>8, <2>1
    <2> QED BY <1>1, <1>5, <1>7, <2>1, <2>2 DEF AudioBuffers
  <1>10. ASSUME NEW i \in 0..(Capacity - 1), c.slots[i] # None
         PROVE  c.slots[i] \in p..g /\ slot(SeqOf(c.slots[i])) = i
    <2>1. c.slots[i] = IF i = slot(SeqOf(q)) THEN q ELSE b.slots[i]
      BY <1>5, <1>8, <1>9
    <2>2. CASE i = slot(SeqOf(q))
      BY <2>1, <2>2, <1>6
    <2>3. CASE i # slot(SeqOf(q))
      <3>1. b.slots[i] # None /\ c.slots[i] = b.slots[i]
        BY <1>10, <2>1, <2>3
      <3>2. b.highest_seq # None /\ b.slots[i] \in p..h /\ slot(SeqOf(b.slots[i])) = i
        BY <3>1 DEF Window
      <3> QED BY <3>1, <3>2, <1>6
    <2> QED BY <2>2, <2>3
  <1>11. Window(c, p, g)
    BY <1>5, <1>6, <1>7, <1>9, <1>10 DEF Window
  <1> QED BY <1>5, <1>6, <1>7, <1>11 DEF c

\* pop_ready on a window of packets: it never runs past the highest, it hands
\* over the packets of the window in order, each under its own number, and
\* leaves a window in which the highest is less than MaxLead ahead.
LEMMA DrainWindow ==
    ASSUME NEW b, NEW p \in Nat, NEW h \in Nat, Window(b, p, h),
           NEW n \in 0..Capacity, StopsAfter(b, n)
    PROVE  /\ Window(Popped(b, n), p + n, h)
           /\ Popped(b, n).highest_seq = b.highest_seq
           /\ b.highest_seq # None => p + n <= h + 1 /\ h - (p + n) < MaxLead
           /\ b.highest_seq = None => n = 0
           /\ \A k \in 1..n : /\ Deliveries(b, n)[k].seq = SeqOf(p + (k - 1))
                               /\ Deliveries(b, n)[k].frame \in {p + (k - 1), None}
  <1>1. /\ b.next_seq = SeqOf(p) /\ SeqOf(p) \in Seqs /\ SeqOf(h) \in Seqs
        /\ Capacity \in Nat \ {0} /\ Capacity <= SeqSpace
    BY SeqOfTurn, RingAssumption, SeqSpaceAssumption DEF Window
  <1>2. ASSUME NEW k \in 0..Capacity PROVE At(b, k) = SeqOf(p + k)
    BY <1>1, PlusOfSeq, SeqSpaceAssumption DEF At
  <1>3. ASSUME NEW k \in 0..(Capacity - 1), b.slots[slot(SeqOf(p + k))] # None
        PROVE  b.slots[slot(SeqOf(p + k))] = p + k /\ b.highest_seq # None /\ p + k <= h
    <2> DEFINE f == b.slots[slot(SeqOf(p + k))]
    <2>1. slot(SeqOf(p + k)) \in 0..(Capacity - 1)
      BY SlotOfSeq
    <2>2. /\ b.highest_seq # None /\ f \in p..h /\ slot(SeqOf(f)) = slot(SeqOf(p + k))
          /\ h \in (p - 1)..(p + Capacity - 1)
      BY <1>3, <2>1 DEF Window
    <2>3. f = p + k
      <3> HIDE DEF f
      <3> QED BY <2>2, OneSlot, RingAssumption
    <2> QED BY <2>2, <2>3
  <1>4. CASE b.highest_seq = None
    <2>1. n = 0
      BY <1>4 DEF StopsAfter
    <2> QED BY <1>4, <2>1 DEF Popped
  <1>5. CASE b.highest_seq # None
    <2>1. b.highest_seq = SeqOf(h) /\ h \in (p - 1)..(p + Capacity - 1)
      BY <1>5 DEF Window
    <2>2. ASSUME NEW k \in 0..Capacity
          PROVE  seq_diff(b.highest_seq, At(b, k)) = h - (p + k)
      <3>1. 2 * (h - (p + k)) < SeqSpace /\ 2 * ((p + k) - h) <= SeqSpace /\ p + k \in Nat
        BY <1>1, <2>1, RingAssumption, SeqSpaceAssumption
      <3> QED BY <1>2, <2>1, <3>1, DiffOfSeq
    <2>3. \A k \in 0..(n - 1) : Filled(b, k) \/ GivesUp(b, k)
      BY <1>5 DEF StopsAfter
    <2>4. ~ GivesUp(b, n)
      BY <1>5 DEF StopsAfter
    <2>5. h - (p + n) < MaxLead
      BY <2>1, <2>2, <2>4, RingAssumption DEF GivesUp
    <2>6. p + n <= h + 1
      <3> DEFINE k == h - p + 1
      <3>1. SUFFICES ASSUME k \in 0..(n - 1) PROVE FALSE
        BY <2>1
      <3>2. k \in 0..Capacity /\ k \in 0..(Capacity - 1) /\ p + k = h + 1
        BY <1>1, <2>1, <3>1
      <3> HIDE DEF k
      <3>3. ~ GivesUp(b, k)
        BY <2>2, <3>2, RingAssumption DEF GivesUp
      <3>4. b.slots[slot(SeqOf(p + k))] # None
        BY <1>2, <2>3, <3>1, <3>2, <3>3 DEF Filled
      <3> QED BY <1>3, <3>2, <3>4
    <2>7. ASSUME NEW k \in 1..n
          PROVE  /\ Deliveries(b, n)[k].seq = SeqOf(p + (k - 1))
                 /\ Deliveries(b, n)[k].frame \in {p + (k - 1), None}
      <3>1. k - 1 \in 0..Capacity /\ k - 1 \in 0..(Capacity - 1)
        BY <1>1
      <3>2. At(b, k - 1) = SeqOf(p + (k - 1))
        BY <1>2, <3>1
      <3>3. b.slots[slot(SeqOf(p + (k - 1)))] \in {p + (k - 1), None}
        BY <1>3, <3>1
      <3> QED BY <3>2, <3>3 DEF Deliveries
    <2>8. Popped(b, n).highest_seq = b.highest_seq
      BY DEF Popped, Window, AudioBuffers
    <2>9. CASE n = 0
      <3>1. Popped(b, n) = b /\ p + n = p
        BY <2>9 DEF Popped
      <3> QED BY <1>5, <2>5, <2>6, <2>7, <3>1
    <2>10. CASE n # 0
      <3> DEFINE c == Popped(b, n)
      <3>1. /\ c.next_seq = SeqOf(p + n)
            /\ c.slots = [i \in 0..(Capacity - 1) |->
                       IF \E k \in 0..(n - 1) : slot(At(b, k)) = i
                       THEN None ELSE b.slots[i]]
            /\ c = [b EXCEPT !.next_seq = c.next_seq, !.slots = c.slots]
        BY <1>2, <2>10 DEF Popped, Window, AudioBuffers
      <3>2. SeqOf(p + n) \in Seqs
        BY SeqOfTurn
      <3>3. c \in AudioBuffers
        <4>1. c.slots \in [0..(Capacity - 1) -> Nat \cup {None}]
          BY <3>1 DEF Window, AudioBuffers
        <4> HIDE DEF c
        <4> QED BY <3>1, <3>2, <4>1 DEF Window, AudioBuffers
      <3>4. ASSUME NEW i \in 0..(Capacity - 1), c.slots[i] # None
            PROVE  c.slots[i] \in (p + n)..h /\ slot(SeqOf(c.slots[i])) = i
        <4>1. /\ c.slots[i] = b.slots[i] /\ b.slots[i] # None
              /\ ~ \E k \in 0..(n - 1) : slot(At(b, k)) = i
          BY <3>1, <3>4
        <4>2. b.slots[i] \in p..h /\ slot(SeqOf(b.slots[i])) = i
          BY <4>1 DEF Window
        <4> DEFINE f == b.slots[i]
        <4>3. ~ (f < p + n)
          <5>1. SUFFICES ASSUME f < p + n PROVE FALSE
            OBVIOUS
          <5>2. f - p \in 0..(n - 1) /\ f - p \in 0..Capacity /\ p + (f - p) = f
            BY <1>1, <4>2, <5>1
          <5>3. slot(At(b, f - p)) = i
            BY <1>2, <4>2, <5>2
          <5> QED BY <4>1, <5>2, <5>3
        <4> QED BY <4>1, <4>2, <4>3
      <3>5. c.highest_seq # None => h \in (p + n - 1)..(p + n + Capacity - 1)
        BY <1>1, <2>1, <2>6
      <3>6. Window(c, p + n, h)
        <4> HIDE DEF c
        <4> QED BY <1>5, <2>1, <2>8, <3>1, <3>3, <3>4, <3>5 DEF Window, c
      <3> QED BY <1>5, <2>5, <2>6, <2>7, <2>8, <3>6
    <2> QED BY <2>9, <2>10
  <1> QED BY <1>4, <1>5

------------------------------------------------------------------------------
(***************************************************************************)
(* The stream and the network.                                             *)
(***************************************************************************)
Newest0 == IF newest = None THEN 0 ELSE newest

\* No FLUSH so far, or one that names its first packet.
Sound == cut = 0 \/ named

\* The next packet to deliver is known.
Started == jitter.next_seq # None

Stream ==
    /\ sent \in 0..MaxPackets /\ cut \in 0..sent /\ pos \in Nat /\ named \in BOOLEAN
    /\ \A p \in wire : p \in 0..(sent - 1) /\ sent - p <= Reorder
    /\ \A p \in replies : p \in 0..(sent - 1) /\ sent - p <= Retain
    /\ newest # None => newest \in 0..(sent - 1)
    /\ sent <= Newest0 + Outage + 1
    /\ named => cut > 0 /\ TRUE \in FlushNames
    /\ ~ Sound => FALSE \in FlushNames
    /\ flushes # <<>> =>
          flushes = <<IF named THEN cut ELSE None>> /\ cut > 0 /\ sent - cut <= Reorder

LEMMA Bounds ==
    /\ MaxPackets \in Nat /\ Reorder \in Nat \ {0} /\ Retain \in Nat /\ Outage \in Nat
    /\ MaxLead \in Nat /\ Capacity \in Nat \ {0} /\ MaxLead < Capacity
    /\ Reorder + MaxLead <= Capacity /\ 2 * Capacity < SeqSpace /\ 2 * Retain < SeqSpace
    /\ SeqSpace \in Nat
  BY AudioAssumption, RingAssumption, SeqSpaceAssumption

LEMMA DrainedPos ==
    ASSUME NEW b, NEW p \in Nat, NEW a, Drain(b, p, a)
    PROVE  pos' \in Nat /\ pos' >= p
  <1>1. PICK n \in 0..Capacity : pos' = p + n
    BY DEF Drain
  <1> QED BY <1>1, Bounds

LEMMA StreamStep ==
    ASSUME Stream, [Next]_vars
    PROVE  Stream'
  <1>1. CASE Send
    <2>1. /\ sent' = sent + 1 /\ sent < MaxPackets /\ wire' = wire \cup {sent}
          /\ UNCHANGED <<cut, named, replies, flushes, jitter, pos, newest>>
          /\ \A p \in wire : sent - p < Reorder
          /\ \A p \in replies : sent - p < Retain
          /\ sent - Newest0 <= Outage
          /\ flushes # <<>> => sent - cut < Reorder
      BY <1>1 DEF Send, Newest0
    <2>2. sent \in Nat /\ Newest0 \in Nat /\ cut \in Nat
      BY Bounds DEF Stream, Newest0
    <2>3. sent' \in 0..MaxPackets /\ cut' \in 0..sent'
      BY <2>1, <2>2, Bounds DEF Stream
    <2>4. \A p \in wire' : p \in 0..(sent' - 1) /\ sent' - p <= Reorder
      BY <2>1, <2>2, Bounds DEF Stream
    <2>5. \A p \in replies' : p \in 0..(sent' - 1) /\ sent' - p <= Retain
      BY <2>1, <2>2, Bounds DEF Stream
    <2>6. newest' # None => newest' \in 0..(sent' - 1)
      BY <2>1, <2>2 DEF Stream
    <2>7. Newest0' = Newest0 /\ Sound' = Sound
      BY <2>1 DEF Newest0, Sound
    <2>8. sent' <= Newest0' + Outage + 1
      BY <2>1, <2>2, <2>7, Bounds
    <2>9. flushes' # <<>> => sent' - cut' <= Reorder
      BY <2>1, <2>2, Bounds
    <2> QED BY <2>1, <2>3, <2>4, <2>5, <2>6, <2>7, <2>8, <2>9 DEF Stream
  <1>2. CASE Lose
    <2>1. /\ wire' \subseteq wire /\ replies' \subseteq replies
          /\ UNCHANGED <<sent, cut, named, flushes, pos, newest>>
      BY <1>2 DEF Lose, senderVars
    <2> QED BY <2>1 DEF Stream, Newest0, Sound
  <1>3. ASSUME NEW s \in asked, Answer(s) PROVE Stream'
    <2>1. /\ replies' = replies \cup
                {p \in 0..(sent - 1) : SeqOf(p) = s /\ sent - p <= Retain}
          /\ UNCHANGED <<sent, cut, named, wire, flushes, pos, newest>>
      BY <1>3 DEF Answer, senderVars
    <2> QED BY <2>1 DEF Stream, Newest0, Sound
  <1>4. ASSUME NEW names \in FlushNames, Flush(names) PROVE Stream'
    <2>1. /\ cut = 0 /\ sent > 0 /\ cut' = sent /\ named' = names
          /\ flushes' = Append(flushes, IF names THEN sent ELSE None)
          /\ UNCHANGED <<sent, wire, replies, pos, newest>>
      BY <1>4 DEF Flush
    <2>2. flushes = <<>>
      BY <2>1 DEF Stream
    <2>3. flushes' = <<IF named' THEN cut' ELSE None>>
      BY <2>1, <2>2
    <2>4. names \in BOOLEAN /\ names \in FlushNames
      BY AudioAssumption
    <2>5. ~ Sound' => FALSE \in FlushNames
      BY <2>1, <2>4 DEF Sound
    <2>6. named' => cut' > 0 /\ TRUE \in FlushNames
      BY <2>1, <2>4
    <2>7. sent' - cut' <= Reorder /\ cut' \in 0..sent' /\ cut' > 0
      BY <2>1, Bounds DEF Stream
    <2>8. Newest0' = Newest0
      BY <2>1 DEF Newest0
    <2> QED BY <2>1, <2>3, <2>4, <2>5, <2>6, <2>7, <2>8 DEF Stream
  <1>5. ASSUME NEW p \in wire, ReceiveAudio(p) PROVE Stream'
    <2>1. /\ wire' \subseteq wire /\ newest' = IF Newer(p) THEN newest ELSE p
          /\ UNCHANGED <<sent, cut, named, replies, flushes>>
          /\ Drain(insert(jitter, SeqOf(p), p), Base(p), anchor')
      BY <1>5 DEF ReceiveAudio, senderVars
    <2>2. p \in 0..(sent - 1) /\ Base(p) \in Nat
      BY DEF Stream, Base
    <2>3. pos' \in Nat
      BY <2>1, <2>2, DrainedPos
    <2>4. newest' \in 0..(sent - 1) /\ newest' # None /\ Newest0' = newest'
          /\ Newest0' >= Newest0
      <3>1. CASE newest = None \/ ~ (newest > p)
        <4>1. newest' = p /\ p # None /\ p \in Nat
          BY <2>1, <2>2, <3>1, NoSeqIsNone, Bounds DEF Newer, Stream
        <4>2. Newest0 <= p
          BY <2>2, <3>1, <4>1 DEF Newest0, Stream
        <4> QED BY <2>2, <4>1, <4>2 DEF Newest0
      <3>2. CASE newest # None /\ newest > p
        <4>1. newest' = newest
          BY <2>1, <3>2 DEF Newer
        <4> QED BY <3>2, <4>1 DEF Newest0, Stream
      <3> QED BY <3>1, <3>2
    <2>5. sent' <= Newest0' + Outage + 1
      <3>1. sent \in Nat /\ Newest0 \in Nat /\ newest' \in Nat
        BY <2>4, Bounds DEF Stream, Newest0
      <3> QED BY <2>1, <2>4, <3>1, Bounds DEF Stream
    <2> QED BY <2>1, <2>3, <2>4, <2>5 DEF Stream, Sound
  <1>6. ASSUME NEW p \in replies, ReceiveResend(p) PROVE Stream'
    <2>1. /\ replies' \subseteq replies
          /\ UNCHANGED <<sent, cut, named, wire, flushes, newest>>
          /\ Drain(insert(jitter, SeqOf(p), p), Base(p), anchor)
      BY <1>6 DEF ReceiveResend, senderVars
    <2>2. Base(p) \in Nat
      BY DEF Stream, Base
    <2>3. pos' \in Nat
      BY <2>1, <2>2, DrainedPos
    <2> QED BY <2>1, <2>3 DEF Stream, Newest0, Sound
  <1>7. ASSUME NEW e \in 0..1, ServiceTick(e) PROVE Stream'
    <2>1. UNCHANGED <<sent, cut, named, wire, replies, flushes, newest>>
          /\ Drain(jitter, pos, anchor) /\ pos \in Nat
      BY <1>7 DEF ServiceTick, senderVars, Stream
    <2>2. pos' \in Nat
      BY <2>1, DrainedPos
    <2> QED BY <2>1, <2>2 DEF Stream, Newest0, Sound
  <1>8. CASE HandleFlush
    <2>1. /\ flushes # <<>> /\ flushes' = Tail(flushes)
          /\ pos' = IF Head(flushes) = None THEN pos ELSE Head(flushes)
          /\ UNCHANGED <<sent, cut, named, wire, replies, newest>>
      BY <1>8 DEF HandleFlush, senderVars
    <2>2. flushes = <<IF named THEN cut ELSE None>>
      BY <2>1 DEF Stream
    <2>3. flushes' = <<>> /\ Head(flushes) = IF named THEN cut ELSE None
      BY <2>1, <2>2
    <2>4. pos' \in Nat
      BY <2>1, <2>3 DEF Stream
    <2> QED BY <2>1, <2>3, <2>4 DEF Stream, Newest0, Sound
  <1>9. CASE UNCHANGED vars
    BY <1>9 DEF vars, Stream, Newest0, Sound
  <1> QED BY <1>1, <1>2, <1>3, <1>4, <1>5, <1>6, <1>7, <1>8, <1>9 DEF Next

------------------------------------------------------------------------------
(***************************************************************************)
(* The buffer of the audio task, as long as no packet is half a circle     *)
(* away from the next one to deliver.                                      *)
(***************************************************************************)
Ring ==
    /\ pos <= sent
    /\ IF Started
       THEN \E h \in Nat : /\ Window(jitter, pos, h)
                           /\ jitter.highest_seq # None => h < sent
       ELSE jitter = NewBuffer

\* The first packet to reach the task sets the position, unless a FLUSH
\* named it before.
First == Sound /\ ~ Started => newest = None

Reach == Started => 2 * (sent - 1 - pos) <= SeqSpace

\* What a step hands over are the packets from p on, or the news that they are
\* lost, with the timestamps that follow from the anchor.
HandsOver(o, p, next, a) ==
    \A k \in 1..Len(o) :
        /\ o[k].pos = p + (k - 1) /\ o[k].pos < next
        /\ o[k].frame \in {o[k].pos, None}
        /\ o[k].ts = derive_ts(SeqOf(o[k].pos), a)

LEMMA DrainRing ==
    ASSUME NEW b, NEW p \in Nat, NEW h \in Nat, Window(b, p, h),
           b.highest_seq # None => h < sent, p <= sent, sent \in Nat, sent' = sent,
           Drain(b, p, anchor')
    PROVE  /\ Ring' /\ Started'
           /\ \E r \in Nat : pos' = r /\ r >= p /\ (b.highest_seq # None => h - r < MaxLead)
           /\ HandsOver(out', p, pos', anchor')
  <1>1. PICK n \in 0..Capacity :
              /\ StopsAfter(b, n) /\ jitter' = Popped(b, n) /\ pos' = p + n
              /\ out' = [k \in 1..n |->
                            LET d == Deliveries(b, n)[k]
                            IN  [pos |-> p + k - 1, frame |-> d.frame,
                                 ts |-> derive_ts(d.seq, anchor')]]
    BY DEF Drain
  <1>2. /\ Window(jitter', p + n, h)
        /\ jitter'.highest_seq = b.highest_seq
        /\ b.highest_seq # None => p + n <= h + 1 /\ h - (p + n) < MaxLead
        /\ b.highest_seq = None => n = 0
        /\ \A k \in 1..n : /\ Deliveries(b, n)[k].seq = SeqOf(p + (k - 1))
                            /\ Deliveries(b, n)[k].frame \in {p + (k - 1), None}
    BY <1>1, DrainWindow
  <1>3. Started'
    <2>1. jitter'.next_seq = SeqOf(p + n) /\ SeqOf(p + n) \in Seqs
      BY <1>2, SeqOfTurn, Bounds DEF Window
    <2> QED BY <2>1, NoSeqIsNone DEF Started
  <1>4. p + n \in Nat /\ p + n >= p /\ p + n <= sent
    <2>1. CASE b.highest_seq = None
      BY <1>1, <1>2, <2>1
    <2>2. CASE b.highest_seq # None
      BY <1>1, <1>2, <2>2, Bounds
    <2> QED BY <2>1, <2>2
  <1>5. Ring'
    BY <1>1, <1>2, <1>3, <1>4 DEF Ring
  <1>6. HandsOver(out', p, pos', anchor')
    <2>1. n \in Nat /\ Len(out') = n
      BY <1>1, Bounds
    <2>2. ASSUME NEW k \in 1..n
          PROVE  /\ out'[k].pos = p + (k - 1) /\ out'[k].pos < pos'
                 /\ out'[k].frame \in {out'[k].pos, None}
                 /\ out'[k].ts = derive_ts(SeqOf(out'[k].pos), anchor')
      <3>1. p + k - 1 = p + (k - 1) /\ p + (k - 1) < p + n
        BY <2>1
      <3> DEFINE d == Deliveries(b, n)[k]
      <3>2. d.seq = SeqOf(p + (k - 1)) /\ d.frame \in {p + (k - 1), None}
        BY <1>2
      <3> HIDE DEF d
      <3>3. out'[k] = [pos |-> p + k - 1, frame |-> d.frame, ts |-> derive_ts(d.seq, anchor')]
        BY <1>1 DEF d
      <3> QED BY <1>1, <3>1, <3>2, <3>3
    <2> QED BY <2>1, <2>2 DEF HandsOver
  <1> QED BY <1>1, <1>2, <1>3, <1>4, <1>5, <1>6

\* A buffer that does not know its next packet takes any for the first.
LEMMA InsertFirst ==
    ASSUME NEW q \in Nat
    PROVE  \E b : /\ Window(b, q, q) /\ b.highest_seq = None
                  /\ insert(NewBuffer, SeqOf(q), q) = insert(b, SeqOf(q), q)
  <1> DEFINE b == reset(SeqOf(q))
  <1>1. SeqOf(q) \in Seqs /\ SeqOf(q) # None
    BY SeqOfTurn, NoSeqIsNone
  <1>2. Window(b, q, q) /\ b.highest_seq = None
    BY <1>1 DEF Window, AudioBuffers, reset, EmptySlots
  <1>3. insert(NewBuffer, SeqOf(q), q) = insert(b, SeqOf(q), q)
    BY <1>1 DEF insert, NewBuffer, reset
  <1> QED BY <1>2, <1>3

\* What becomes of a packet that reaches the task.
LEMMA ArriveRing ==
    ASSUME Ring, Reach, sent \in Nat, pos \in Nat, NEW q \in 0..(sent - 1),
           2 * (sent - q) <= SeqSpace, sent' = sent,
           Drain(insert(jitter, SeqOf(q), q), Base(q), anchor')
    PROVE  /\ Ring' /\ Started'
           /\ \E r \in Nat : /\ pos' = r /\ r >= Base(q)
                             /\ q - Base(q) < Capacity => q - r < MaxLead
           /\ HandsOver(out', Base(q), pos', anchor')
  <1> DEFINE p == Base(q)
  <1>1. p \in Nat /\ q \in Nat /\ p <= sent /\ 2 * (q - p) <= SeqSpace /\ 2 * (p - q) <= SeqSpace
    BY Bounds DEF Base, Ring, Reach, Started
  <1>2. PICK b : \E h \in Nat : /\ Window(b, p, h)
                                /\ b.highest_seq # None => h < sent
                                /\ insert(jitter, SeqOf(q), q) = insert(b, SeqOf(q), q)
    <2>1. CASE Started
      BY <2>1 DEF Ring, Started, Base
    <2>2. CASE ~ Started
      <3>1. jitter = NewBuffer /\ p = q /\ q \in Nat /\ q < sent
        BY <2>2 DEF Ring, Started, Base
      <3> HIDE DEF p
      <3> QED BY <3>1, InsertFirst
    <2> QED BY <2>1, <2>2
  <1>3. PICK h \in Nat : /\ Window(b, p, h)
                         /\ b.highest_seq # None => h < sent
                         /\ insert(jitter, SeqOf(q), q) = insert(b, SeqOf(q), q)
    BY <1>2
  <1> DEFINE c == insert(b, SeqOf(q), q)
  <1>4. Drain(c, p, anchor')
    BY <1>3
  <1> HIDE DEF p, c
  <1>5. CASE q < p \/ q - p >= Capacity
    <2>1. c = b
      BY <1>1, <1>3, <1>5, InsertOutside DEF c
    <2>2. /\ Ring' /\ Started' /\ (\E r \in Nat : pos' = r /\ r >= p)
          /\ HandsOver(out', p, pos', anchor')
      BY <1>1, <1>3, <1>4, <2>1, DrainRing
    <2>3. PICK r \in Nat : pos' = r /\ r >= p
      BY <2>2
    <2>4. q - p < Capacity => q - r < MaxLead
      BY <1>1, <1>5, <2>3, Bounds
    <2> QED BY <2>2, <2>3, <2>4 DEF p
  <1>6. CASE ~ (q < p \/ q - p >= Capacity)
    <2>1. q - p \in 0..(Capacity - 1) /\ q \in Nat
      BY <1>1, <1>6, Bounds
    <2>2. PICK g \in Nat : /\ Window(c, p, g) /\ c.highest_seq # None
                           /\ g >= q /\ (g = q \/ (b.highest_seq # None /\ g = h))
      BY <1>1, <1>3, <2>1, InsertInside DEF c
    <2>3. g < sent
      BY <1>3, <2>2
    <2>4. /\ Ring' /\ Started' /\ (\E r \in Nat : pos' = r /\ r >= p /\ g - r < MaxLead)
          /\ HandsOver(out', p, pos', anchor')
      BY <1>1, <1>4, <2>2, <2>3, DrainRing
    <2>5. PICK r \in Nat : pos' = r /\ r >= p /\ g - r < MaxLead
      BY <2>4
    <2>6. q - r < MaxLead
      BY <2>1, <2>2, <2>5, Bounds
    <2> QED BY <2>4, <2>5, <2>6 DEF p
  <1> QED BY <1>5, <1>6

\* The same of a service tick.
LEMMA TickRing ==
    ASSUME Ring, sent \in Nat, pos \in Nat, sent' = sent, Drain(jitter, pos, anchor')
    PROVE  /\ Ring' /\ (Started' <=> Started)
           /\ \E r \in Nat : pos' = r /\ r >= pos
           /\ HandsOver(out', pos, pos', anchor')
  <1>1. CASE Started
    <2>1. PICK h \in Nat : /\ Window(jitter, pos, h)
                           /\ jitter.highest_seq # None => h < sent
      BY <1>1 DEF Ring
    <2>2. pos <= sent
      BY DEF Ring
    <2> QED BY <1>1, <2>1, <2>2, DrainRing
  <1>2. CASE ~ Started
    <2>1. jitter.highest_seq = None /\ jitter = NewBuffer
      BY <1>2 DEF Ring, NewBuffer, reset
    <2>2. jitter' = jitter /\ pos' = pos /\ out' = <<>>
      <3>1. PICK n \in 0..Capacity :
              /\ StopsAfter(jitter, n) /\ jitter' = Popped(jitter, n) /\ pos' = pos + n
              /\ out' = [k \in 1..n |->
                            LET d == Deliveries(jitter, n)[k]
                            IN  [pos |-> pos + k - 1, frame |-> d.frame,
                                 ts |-> derive_ts(d.seq, anchor')]]
        BY DEF Drain
      <3>2. n = 0
        BY <2>1, <3>1 DEF StopsAfter
      <3> QED BY <3>1, <3>2 DEF Popped
    <2> QED BY <1>2, <2>1, <2>2 DEF Ring, Started, HandsOver
  <1> QED BY <1>1, <1>2

LEMMA FlushRing ==
    ASSUME Stream, Ring, HandleFlush
    PROVE  /\ Ring' /\ out' = <<>> /\ flushes' = <<>> /\ (Started' <=> named)
           /\ pos' = IF named THEN cut ELSE pos
  <1>1. /\ flushes = <<IF named THEN cut ELSE None>> /\ flushes' = Tail(flushes)
        /\ jitter' = reset(IF Head(flushes) = None THEN None ELSE SeqOf(Head(flushes)))
        /\ pos' = IF Head(flushes) = None THEN pos ELSE Head(flushes)
        /\ out' = <<>> /\ sent' = sent
    BY DEF HandleFlush, Stream, senderVars
  <1>2. flushes' = <<>> /\ Head(flushes) = IF named THEN cut ELSE None
    BY <1>1
  <1>3. cut \in Nat /\ cut # None /\ cut <= sent /\ SeqOf(cut) \in Seqs /\ SeqOf(cut) # None
    <2>1. cut \in Nat /\ cut <= sent
      BY Bounds DEF Stream
    <2>2. cut # None /\ SeqOf(cut) \in Seqs
      BY <2>1, SeqOfTurn, NoSeqIsNone
    <2> QED BY <2>1, <2>2, NoSeqIsNone
  <1>4. CASE named
    <2>1. pos' = cut /\ jitter' = reset(SeqOf(cut))
      BY <1>1, <1>2, <1>3, <1>4
    <2>2. Window(jitter', cut, 0) /\ jitter'.highest_seq = None /\ Started'
      BY <1>3, <2>1 DEF Window, AudioBuffers, reset, EmptySlots, Started
    <2> QED BY <1>1, <1>2, <1>3, <1>4, <2>1, <2>2 DEF Ring
  <1>5. CASE ~ named
    <2>1. pos' = pos /\ jitter' = NewBuffer
      BY <1>1, <1>2, <1>5 DEF NewBuffer
    <2>2. ~ Started'
      BY <2>1 DEF NewBuffer, reset, Started
    <2> QED BY <1>1, <1>2, <1>5, <2>1, <2>2 DEF Ring
  <1> QED BY <1>4, <1>5

LEMMA RingStep ==
    ASSUME Stream, Ring, First, Reach, [Next]_vars
    PROVE  Ring' /\ First'
  <1>0. sent \in Nat /\ pos \in Nat
    BY Bounds DEF Stream
  <1>1. CASE Send
    <2>1. sent' = sent + 1 /\ UNCHANGED <<cut, named, newest, jitter, pos>>
      BY <1>1 DEF Send
    <2>2. Ring'
      <3>1. pos' <= sent'
        BY <1>0, <2>1 DEF Ring
      <3>2. ASSUME Started
            PROVE  \E h \in Nat : /\ Window(jitter', pos', h)
                                  /\ jitter'.highest_seq # None => h < sent'
        BY <1>0, <2>1, <3>2 DEF Ring
      <3> QED BY <2>1, <3>1, <3>2 DEF Ring, Started
    <2> QED BY <2>1, <2>2 DEF First, Sound, Started
  <1>2. CASE Lose \/ \E s \in asked : Answer(s)
    <2>1. UNCHANGED <<sent, cut, named, newest, jitter, pos>>
      BY <1>2 DEF Lose, Answer, senderVars
    <2> QED BY <2>1 DEF Ring, Started, First, Sound
  <1>3. ASSUME NEW names \in FlushNames, Flush(names) PROVE Ring' /\ First'
    <2>1. UNCHANGED <<sent, newest, jitter, pos>> /\ cut = 0
      BY <1>3 DEF Flush
    <2> QED BY <2>1 DEF Ring, Started, First, Sound
  <1>4. ASSUME NEW p \in wire, ReceiveAudio(p) PROVE Ring' /\ First'
    <2>1. /\ sent' = sent /\ p \in 0..(sent - 1) /\ sent - p <= Reorder
          /\ Drain(insert(jitter, SeqOf(p), p), Base(p), anchor')
      BY <1>4 DEF ReceiveAudio, senderVars, Stream
    <2>2. 2 * (sent - p) <= SeqSpace
      BY <1>0, <2>1, Bounds
    <2> QED BY <1>0, <2>1, <2>2, ArriveRing DEF First
  <1>5. ASSUME NEW p \in replies, ReceiveResend(p) PROVE Ring' /\ First'
    <2>1. /\ sent' = sent /\ anchor' = anchor /\ p \in 0..(sent - 1) /\ sent - p <= Retain
          /\ Drain(insert(jitter, SeqOf(p), p), Base(p), anchor')
      BY <1>5 DEF ReceiveResend, senderVars, Stream
    <2>2. 2 * (sent - p) <= SeqSpace
      BY <1>0, <2>1, Bounds
    <2> QED BY <1>0, <2>1, <2>2, ArriveRing DEF First
  <1>6. ASSUME NEW e \in 0..1, ServiceTick(e) PROVE Ring' /\ First'
    <2>1. /\ UNCHANGED <<sent, cut, named, newest, anchor>>
          /\ Drain(jitter, pos, anchor')
      BY <1>6 DEF ServiceTick, senderVars
    <2> QED BY <1>0, <2>1, TickRing DEF First, Sound
  <1>7. CASE HandleFlush
    <2>1. UNCHANGED <<cut, named>> /\ cut > 0
      BY <1>7 DEF HandleFlush, senderVars, Stream
    <2>2. cut # 0
      BY <2>1
    <2> QED BY <1>7, <2>1, <2>2, FlushRing DEF First, Sound
  <1>8. CASE UNCHANGED vars
    BY <1>8 DEF vars, Ring, Started, First, Sound
  <1> QED BY <1>1, <1>2, <1>3, <1>4, <1>5, <1>6, <1>7, <1>8 DEF Next

\* The newest packet that reached the task is less than L ahead of the next to
\* deliver.
Near(L) == Started => Newest0 - pos < L

LEMMA NearReach ==
    ASSUME Stream, NEW L \in Nat, L + Outage <= Capacity, Near(L)
    PROVE  Reach /\ (Started => sent - pos <= Capacity)
  BY Bounds DEF Stream, Near, Reach, Newest0

LEMMA NearStep ==
    ASSUME Stream, Ring, First, NEW L \in Nat, Near(L),
           MaxLead <= L, L + Outage <= Capacity,
           TRUE \in FlushNames => Reorder <= L,
           Sound \/ (Reorder <= L /\ Retain <= L),
           [Next]_vars
    PROVE  Near(L)'
  <1>0. /\ sent \in Nat /\ pos \in Nat /\ Newest0 \in Nat /\ (sent > 0 => Newest0 < sent)
        /\ Reach /\ (Started => sent - pos <= Capacity)
    <2>1. sent \in Nat /\ pos \in Nat /\ Newest0 \in Nat /\ (sent > 0 => Newest0 < sent)
      BY Bounds DEF Stream, Newest0
    <2> QED BY <2>1, NearReach
  <1>1. CASE Send \/ Lose \/ (\E s \in asked : Answer(s)) \/ (\E n \in FlushNames : Flush(n))
    <2>1. UNCHANGED <<newest, jitter, pos>>
      BY <1>1 DEF Send, Lose, Answer, Flush
    <2> QED BY <2>1 DEF Near, Started, Newest0
  <1>4. ASSUME NEW p \in wire, ReceiveAudio(p) PROVE Near(L)'
    <2>1. /\ sent' = sent /\ p \in 0..(sent - 1) /\ sent - p <= Reorder
          /\ Drain(insert(jitter, SeqOf(p), p), Base(p), anchor')
          /\ newest' = IF Newer(p) THEN newest ELSE p
      BY <1>4 DEF ReceiveAudio, senderVars, Stream
    <2>2. 2 * (sent - p) <= SeqSpace /\ p \in Nat
      BY <1>0, <2>1, Bounds
    <2>3. PICK r \in Nat : /\ pos' = r /\ r >= Base(p)
                           /\ p - Base(p) < Capacity => p - r < MaxLead
      BY <1>0, <2>1, <2>2, ArriveRing
    <2>4. p - r < MaxLead
      <3>1. CASE Started
        BY <1>0, <2>1, <2>3, <3>1, Bounds DEF Base, Started
      <3>2. CASE ~ Started
        BY <2>2, <2>3, <3>2, Bounds DEF Base, Started
      <3> QED BY <3>1, <3>2
    <2>5. CASE newest' = p
      BY <2>2, <2>3, <2>4, <2>5, Bounds DEF Near, Newest0
    <2>6. CASE newest' # p
      <3>1. newest' = newest /\ newest # None /\ Newest0' = Newest0
        BY <2>1, <2>6 DEF Newer, Newest0
      <3>2. CASE Started
        BY <1>0, <2>3, <3>1, <3>2, Bounds DEF Base, Started, Near
      <3>3. CASE ~ Started
        <4>1. Base(p) = p /\ Reorder <= L
          BY <3>1, <3>3 DEF Base, Started, First
        <4>2. Newest0 - r < L
          BY <1>0, <2>1, <2>2, <2>3, <4>1, Bounds
        <4> QED BY <3>1, <2>3, <4>2 DEF Near
      <3> QED BY <3>2, <3>3
    <2> QED BY <2>5, <2>6
  <1>5. ASSUME NEW p \in replies, ReceiveResend(p) PROVE Near(L)'
    <2>1. /\ sent' = sent /\ anchor' = anchor /\ p \in 0..(sent - 1) /\ sent - p <= Retain
          /\ Drain(insert(jitter, SeqOf(p), p), Base(p), anchor')
          /\ newest' = newest
      BY <1>5 DEF ReceiveResend, senderVars, Stream
    <2>2. 2 * (sent - p) <= SeqSpace /\ p \in Nat
      BY <1>0, <2>1, Bounds
    <2>3. PICK r \in Nat : /\ pos' = r /\ r >= Base(p)
                           /\ p - Base(p) < Capacity => p - r < MaxLead
      BY <1>0, <2>1, <2>2, ArriveRing
    <2>4. Newest0' = Newest0
      BY <2>1 DEF Newest0
    <2>5. CASE Started
      BY <1>0, <2>3, <2>4, <2>5, Bounds DEF Base, Started, Near
    <2>6. CASE ~ Started
      <3>1. Base(p) = p
        BY <2>6 DEF Base, Started
      <3>2. CASE Sound
        <4>1. Newest0 = 0 /\ p - r < MaxLead
          BY <2>2, <2>3, <2>6, <3>1, <3>2, Bounds DEF First, Newest0
        <4> QED BY <2>2, <2>3, <2>4, <4>1, Bounds DEF Near
      <3>3. CASE ~ Sound
        <4>1. Retain <= L
          BY <3>3
        <4>2. Newest0 - r < L
          BY <1>0, <2>1, <2>2, <2>3, <3>1, <4>1, Bounds
        <4> QED BY <2>4, <2>3, <4>2 DEF Near
      <3> QED BY <3>2, <3>3
    <2> QED BY <2>5, <2>6
  <1>6. ASSUME NEW e \in 0..1, ServiceTick(e) PROVE Near(L)'
    <2>1. UNCHANGED <<sent, newest, anchor>> /\ Drain(jitter, pos, anchor')
      BY <1>6 DEF ServiceTick, senderVars
    <2>2. PICK r \in Nat : pos' = r /\ r >= pos
      BY <1>0, <2>1, TickRing
    <2>3. (Started' <=> Started) /\ Newest0' = Newest0
      BY <1>0, <2>1, TickRing DEF Newest0
    <2> QED BY <1>0, <2>2, <2>3 DEF Near
  <1>7. CASE HandleFlush
    <2>1. newest' = newest /\ Newest0' = Newest0 /\ flushes # <<>>
      BY <1>7 DEF HandleFlush, Newest0
    <2>2. (Started' <=> named) /\ (named => pos' = cut)
      BY <1>7, FlushRing
    <2>3. cut \in Nat /\ cut > 0 /\ cut <= sent /\ sent - cut <= Reorder
      BY <1>0, <2>1 DEF Stream
    <2>4. named => Reorder <= L
      BY DEF Stream
    <2>5. named => Newest0 - cut < L
      BY <1>0, <2>3, <2>4, Bounds
    <2> QED BY <2>1, <2>2, <2>5 DEF Near
  <1>8. CASE UNCHANGED vars
    BY <1>8 DEF vars, Near, Started, Newest0
  <1> QED BY <1>1, <1>4, <1>5, <1>6, <1>7, <1>8 DEF Next

------------------------------------------------------------------------------
LEMMA InitStream == Init => Stream /\ Ring /\ First
  <1> SUFFICES ASSUME Init PROVE Stream /\ Ring /\ First
    OBVIOUS
  <1>1. ~ Started
    BY DEF Init, Started, NewBuffer, reset
  <1>2. Newest0 = 0
    BY DEF Init, Newest0
  <1>3. 0 \in 0..MaxPackets /\ 0 \in 0..0 /\ 0 <= 0 + Outage + 1
    BY Bounds
  <1>4. Stream
    BY <1>2, <1>3 DEF Init, Stream, Sound
  <1>5. Ring /\ First
    BY <1>1, <1>3 DEF Init, Ring, First
  <1> QED BY <1>4, <1>5

\* How the stream must behave for the delays of the network not to fill the
\* buffer, as far as no FLUSH without RTP-Info comes in.
PromptStream ==
    /\ MaxLead + Outage <= Capacity
    /\ TRUE \in FlushNames => Reorder <= MaxLead

\* Loss holds playback up for less than MaxLead packets, whatever the length
\* of the stream, wherever its numbers begin and however they wrap around.
THEOREM ConcealsTheorem ==
    ASSUME PromptStream
    PROVE  Spec => []ConcealsInTime
  <1> DEFINE CInv == Stream /\ (Sound => Ring /\ First /\ Near(MaxLead))
  <1>1. Init => CInv
    <2>1. Init => ~ Started
      BY DEF Init, Started, NewBuffer, reset
    <2> QED BY <2>1, InitStream DEF Near
  <1>2. CInv /\ [Next]_vars => CInv'
    <2> SUFFICES ASSUME CInv, [Next]_vars PROVE CInv'
      OBVIOUS
    <2>1. Stream'
      BY StreamStep
    <2>2. Sound' => Sound
      BY DEF Next, Send, Lose, Answer, Flush, ReceiveAudio, ReceiveResend, ServiceTick,
             HandleFlush, senderVars, vars, Sound
    <2>3. ASSUME Sound PROVE Ring' /\ First' /\ Near(MaxLead)'
      <3>1. /\ MaxLead \in Nat /\ MaxLead + Outage <= Capacity
            /\ TRUE \in FlushNames => Reorder <= MaxLead
        BY Bounds DEF PromptStream
      <3>2. Reach
        BY <2>3, <3>1, NearReach
      <3>3. Ring' /\ First'
        BY <2>3, <3>2, RingStep
      <3>4. MaxLead <= MaxLead
        BY <3>1
      <3>5. Near(MaxLead)'
        BY <2>3, <3>1, <3>4, NearStep
      <3> QED BY <3>3, <3>5
    <2> QED BY <2>1, <2>2, <2>3
  <1>3. CInv => ConcealsInTime
    BY DEF ConcealsInTime, Near, Newest0, Started, Sound
  <1> QED BY <1>1, <1>2, <1>3, PTL DEF Spec

------------------------------------------------------------------------------
(***************************************************************************)
(* What is handed to the player.                                           *)
(***************************************************************************)

\* A stream too short to lap the circle, or a network whose delays, outages
\* included, fit into the buffer.
NoLap ==
    \/ 2 * MaxPackets <= SeqSpace + 2
    \/ /\ MaxLead + Outage <= Capacity /\ Reorder + Outage <= Capacity
       /\ FALSE \in FlushNames => Retain + Outage <= Capacity

Close == 2 * MaxPackets <= SeqSpace + 2 \/ Near(Capacity - Outage)

\* The last step handed over packets that lie behind the next one.
Played == \A k \in 1..Len(out) : /\ out[k].pos \in Nat /\ out[k].pos < pos
                                 /\ out[k].frame \in {out[k].pos, None}

\* Once the FLUSH is handled nothing before it is delivered next.
Fresh == (named /\ flushes = <<>>) =>
            Started /\ cut <= pos /\ \A k \in 1..Len(out) : cut <= out[k].pos

FInv == Stream /\ Ring /\ First /\ Close /\ Played /\ Fresh /\ TimestampsNearAnchor

LEMMA FInvReach ==
    ASSUME Stream, NoLap, Close, Ring
    PROVE  Reach
  <1>1. CASE 2 * MaxPackets <= SeqSpace + 2
    BY <1>1, Bounds DEF Stream, Reach
  <1>2. CASE ~ (2 * MaxPackets <= SeqSpace + 2)
    <2> DEFINE L == Capacity - Outage
    <2>0. /\ MaxLead + Outage <= Capacity /\ Reorder + Outage <= Capacity
          /\ FALSE \in FlushNames => Retain + Outage <= Capacity
      BY <1>2 DEF NoLap
    <2>1. L \in Nat /\ L + Outage <= Capacity
      BY <2>0, Bounds
    <2>2. Near(L)
      BY <1>2 DEF Close
    <2> HIDE DEF L
    <2> QED BY <2>1, <2>2, NearReach
  <1> QED BY <1>1, <1>2

LEMMA CloseStep ==
    ASSUME Stream, NoLap, Close, Ring, First, [Next]_vars
    PROVE  Close'
  <1>1. CASE 2 * MaxPackets <= SeqSpace + 2
    BY <1>1 DEF Close
  <1>2. CASE ~ (2 * MaxPackets <= SeqSpace + 2)
    <2> DEFINE L == Capacity - Outage
    <2>0. /\ MaxLead + Outage <= Capacity /\ Reorder + Outage <= Capacity
          /\ FALSE \in FlushNames => Retain + Outage <= Capacity
      BY <1>2 DEF NoLap
    <2>1. /\ L \in Nat /\ L + Outage <= Capacity /\ MaxLead <= L /\ Reorder <= L
      BY <2>0, Bounds
    <2>5. FALSE \in FlushNames => Retain <= L
      BY <2>0, Bounds
    <2>4. Near(L)
      BY <1>2 DEF Close
    <2> HIDE DEF L
    <2>2. Sound \/ (Reorder <= L /\ Retain <= L)
      BY <2>1, <2>5 DEF Stream
    <2>3. Near(L)'
      BY <2>1, <2>2, <2>4, NearStep
    <2> QED BY <2>3 DEF Close, L
  <1> QED BY <1>1, <1>2

\* The four things a step may do to what was handed over.
LEMMA OutStep ==
    ASSUME Stream, Ring, Reach, [Next]_vars
    PROVE  \/ UNCHANGED <<out, pos, anchor, jitter, cut, named, flushes>>
           \/ /\ cut = 0 /\ cut' = sent /\ flushes' # <<>>
              /\ UNCHANGED <<out, pos, anchor, jitter>>
           \/ \E p, r \in Nat : /\ pos' = r /\ (Started => Started' /\ pos <= p /\ pos <= r)
                               /\ HandsOver(out', p, r, anchor')
                               /\ UNCHANGED <<cut, named, flushes>>
           \/ /\ out' = <<>> /\ UNCHANGED <<cut, named>>
              /\ named => Started' /\ pos' = cut
  <1>0. sent \in Nat /\ pos \in Nat
    BY Bounds DEF Stream
  <1>1. CASE Send \/ Lose \/ (\E s \in asked : Answer(s)) \/ UNCHANGED vars
    BY <1>1 DEF Send, Lose, Answer, vars, senderVars
  <1>2. ASSUME NEW names \in FlushNames, Flush(names)
        PROVE  /\ cut = 0 /\ cut' = sent /\ flushes' # <<>>
               /\ UNCHANGED <<out, pos, anchor, jitter>>
    <2>1. cut = 0 /\ flushes' = Append(flushes, IF names THEN sent ELSE None)
      BY <1>2 DEF Flush
    <2>2. flushes = <<>>
      BY <2>1 DEF Stream
    <2>3. flushes' # <<>>
      BY <2>1, <2>2
    <2> QED BY <1>2, <2>3 DEF Flush
  <1> DEFINE Handed == \E p, r \in Nat :
                          /\ pos' = r /\ (Started => Started' /\ pos <= p /\ pos <= r)
                          /\ HandsOver(out', p, r, anchor')
                          /\ UNCHANGED <<cut, named, flushes>>
  <1>3. ASSUME NEW q \in 0..(sent - 1), 2 * (sent - q) <= SeqSpace, sent' = sent,
               Drain(insert(jitter, SeqOf(q), q), Base(q), anchor'),
               UNCHANGED <<cut, named, flushes>>
        PROVE  Handed
    <2>1. Started' /\ HandsOver(out', Base(q), pos', anchor')
      BY <1>0, <1>3, ArriveRing
    <2>2. PICK r \in Nat : pos' = r /\ r >= Base(q)
      BY <1>0, <1>3, ArriveRing
    <2>3. HandsOver(out', Base(q), r, anchor')
      BY <2>1, <2>2
    <2>4. Base(q) \in Nat /\ (Started => Base(q) = pos)
      BY <1>0 DEF Base, Started
    <2>5. Started => pos <= Base(q) /\ pos <= r
      BY <1>0, <2>2, <2>4
    <2> QED BY <1>3, <2>1, <2>2, <2>3, <2>4, <2>5
  <1>4. ASSUME NEW p \in wire, ReceiveAudio(p) PROVE Handed
    <2>1. /\ sent' = sent /\ p \in 0..(sent - 1) /\ sent - p <= Reorder
          /\ Drain(insert(jitter, SeqOf(p), p), Base(p), anchor')
          /\ UNCHANGED <<cut, named, flushes>>
      BY <1>4 DEF ReceiveAudio, senderVars, Stream
    <2>2. 2 * (sent - p) <= SeqSpace
      BY <1>0, <2>1, Bounds
    <2> HIDE DEF Handed
    <2> QED BY <1>3, <2>1, <2>2
  <1>5. ASSUME NEW p \in replies, ReceiveResend(p) PROVE Handed
    <2>1. /\ sent' = sent /\ anchor' = anchor /\ p \in 0..(sent - 1) /\ sent - p <= Retain
          /\ Drain(insert(jitter, SeqOf(p), p), Base(p), anchor')
          /\ UNCHANGED <<cut, named, flushes>>
      BY <1>5 DEF ReceiveResend, senderVars, Stream
    <2>2. 2 * (sent - p) <= SeqSpace
      BY <1>0, <2>1, Bounds
    <2> HIDE DEF Handed
    <2> QED BY <1>3, <2>1, <2>2
  <1>6. ASSUME NEW e \in 0..1, ServiceTick(e) PROVE Handed
    <2>1. /\ UNCHANGED <<sent, cut, named, flushes, anchor>>
          /\ Drain(jitter, pos, anchor')
      BY <1>6 DEF ServiceTick, senderVars
    <2>2. (Started' <=> Started) /\ HandsOver(out', pos, pos', anchor')
      BY <1>0, <2>1, TickRing
    <2>3. PICK r \in Nat : pos' = r /\ r >= pos
      BY <1>0, <2>1, TickRing
    <2>4. HandsOver(out', pos, r, anchor') /\ pos <= pos /\ pos <= r
      BY <1>0, <2>2, <2>3
    <2> QED BY <1>0, <2>1, <2>2, <2>3, <2>4
  <1>7. CASE HandleFlush
    <2>1. UNCHANGED <<cut, named>>
      BY <1>7 DEF HandleFlush, senderVars
    <2> QED BY <1>7, <2>1, FlushRing
  <1> QED BY <1>1, <1>2, <1>4, <1>5, <1>6, <1>7 DEF Next

\* The timestamps that follow from the anchor are the sender's.
LEMMA TimesFollow ==
    ASSUME NEW p \in Nat, NEW r \in Nat, cut \in Nat, cut' = cut,
           HandsOver(out', p, r, anchor')
    PROVE  TimestampsNearAnchor'
  <1>1. ASSUME NEW q \in Int, NEW a \in 0..q, 2 * (q - a) < SeqSpace,
               anchor' = [seq |-> SeqOf(a), ts |-> Ts(a)], a < cut <=> q < cut
        PROVE  derive_ts(SeqOf(q), anchor') = Ts(q)
    <2>1. seq_diff(SeqOf(q), SeqOf(a)) = q - a /\ q - a >= 0
      BY <1>1, DiffOfSeq, Bounds
    <2>2. anchor' # None /\ anchor'.seq = SeqOf(a) /\ anchor'.ts = Ts(a)
      <3>1. SeqOf(a) \in Seqs /\ Ts(a) \in Nat
        BY SeqOfTurn, AudioAssumption DEF Ts
      <3>2. anchor' \in [seq : Seqs, ts : Nat]
        BY <1>1, <3>1
      <3> QED BY <1>1, <3>2, AudioAssumption
    <2>3. derive_ts(SeqOf(q), anchor') = Ts(a) + (q - a)
      BY <2>1, <2>2 DEF derive_ts
    <2> QED BY <1>1, <2>3, AudioAssumption DEF Ts
  <1>2. ASSUME NEW k \in 1..Len(out')
        PROVE  \A a \in 0..out'[k].pos :
                  (AnchoredAt(a, out[k].pos)' /\ 2 * (out'[k].pos - a) < SeqSpace) =>
                     out'[k].ts = Ts(out[k].pos)'
    <2> DEFINE q == p + (k - 1)
    <2>1. out'[k].pos = q /\ out'[k].ts = derive_ts(SeqOf(q), anchor') /\ q \in Int
      BY DEF HandsOver
    <2> HIDE DEF q
    <2>2. Ts(out[k].pos)' = Ts(q)
      BY <2>1 DEF Ts
    <2>3. ASSUME NEW a \in 0..q, AnchoredAt(a, out[k].pos)'
          PROVE  anchor' = [seq |-> SeqOf(a), ts |-> Ts(a)] /\ (a < cut <=> q < cut)
      BY <2>1, <2>3 DEF AnchoredAt, Ts
    <2> QED BY <1>1, <2>1, <2>2, <2>3
  <1> QED BY <1>2 DEF TimestampsNearAnchor

LEMMA FInvStep ==
    ASSUME NoLap, FInv, [Next]_vars
    PROVE  FInv'
  <1>1. Reach
    BY FInvReach DEF FInv
  <1>2. Stream' /\ Ring' /\ First' /\ Close'
    BY <1>1, StreamStep, RingStep, CloseStep DEF FInv
  <1>3. sent \in Nat /\ cut \in Nat /\ pos \in Nat /\ pos <= sent
    BY Bounds DEF FInv, Stream, Ring
  <1>4. CASE UNCHANGED <<out, pos, anchor, jitter, cut, named, flushes>>
    <2>1. Played' /\ Fresh' /\ TimestampsNearAnchor'
      BY <1>4 DEF FInv, Played, Fresh, Started, TimestampsNearAnchor, AnchoredAt, Ts
    <2> QED BY <1>2, <2>1 DEF FInv
  <1>5. CASE /\ cut = 0 /\ cut' = sent /\ flushes' # <<>>
             /\ UNCHANGED <<out, pos, anchor, jitter>>
    <2>1. Played' /\ Fresh'
      BY <1>5 DEF FInv, Played, Fresh
    <2>2. ASSUME NEW k \in 1..Len(out), NEW a \in 0..out[k].pos, AnchoredAt(a, out[k].pos)'
          PROVE  /\ AnchoredAt(a, out[k].pos)
                 /\ Ts(out[k].pos)' = Ts(out[k].pos)
      <3>1. PICK q \in Nat : q = out[k].pos /\ q < sent
        BY <1>3 DEF FInv, Played
      <3>2. a \in Nat /\ a < sent
        BY <1>3, <3>1
      <3>3. Ts(q)' = Ts(q) /\ Ts(a)' = Ts(a)
        BY <1>3, <1>5, <3>1, <3>2 DEF Ts
      <3>4. anchor = [seq |-> SeqOf(a), ts |-> Ts(a)]
        BY <1>5, <2>2, <3>3 DEF AnchoredAt
      <3>5. Ts(out[k].pos)' = Ts(out[k].pos)
        BY <1>5, <3>1, <3>3 DEF Ts
      <3> QED BY <1>5, <3>1, <3>2, <3>4, <3>5 DEF AnchoredAt
    <2>3. TimestampsNearAnchor'
      BY <1>5, <2>2 DEF FInv, TimestampsNearAnchor
    <2> QED BY <1>2, <2>1, <2>3 DEF FInv
  <1>6. ASSUME NEW p \in Nat, NEW r \in Nat, pos' = r,
               Started => Started' /\ pos <= p /\ pos <= r,
               HandsOver(out', p, r, anchor'), UNCHANGED <<cut, named, flushes>>
        PROVE  FInv'
    <2>1. TimestampsNearAnchor'
      BY <1>3, <1>6, TimesFollow
    <2>2. ASSUME NEW k \in 1..Len(out')
          PROVE  /\ out'[k].pos \in Nat /\ out'[k].pos < r /\ p <= out'[k].pos
                 /\ out'[k].frame \in {out'[k].pos, None}
      BY <1>6 DEF HandsOver
    <2>3. Played'
      BY <1>6, <2>2 DEF Played
    <2>4. Fresh'
      <3>1. SUFFICES ASSUME named', flushes' = <<>>
                     PROVE  Started' /\ cut' <= r /\ \A k \in 1..Len(out') : cut' <= out'[k].pos
        BY <1>6 DEF Fresh
      <3>2. named /\ flushes = <<>> /\ cut' = cut
        BY <1>6, <3>1
      <3>3. Started /\ cut <= pos
        BY <3>2 DEF FInv, Fresh
      <3>4. Started' /\ pos <= p /\ pos <= r
        BY <1>6, <3>3
      <3>5. cut <= p /\ cut <= r
        BY <1>3, <3>3, <3>4
      <3>6. ASSUME NEW k \in 1..Len(out') PROVE cut <= out'[k].pos
        <4>1. p <= out'[k].pos
          BY <2>2
        <4>2. PICK x \in Nat : x = out'[k].pos
          BY <2>2
        <4> QED BY <1>3, <3>5, <4>1, <4>2
      <3> QED BY <3>2, <3>4, <3>5, <3>6
    <2> QED BY <1>2, <2>1, <2>3, <2>4 DEF FInv
  <1>7. CASE /\ out' = <<>> /\ UNCHANGED <<cut, named>>
             /\ named => Started' /\ pos' = cut
    <2>1. Played' /\ TimestampsNearAnchor'
      BY <1>7 DEF Played, TimestampsNearAnchor
    <2>2. Fresh'
      BY <1>3, <1>7 DEF Fresh
    <2> QED BY <1>2, <2>1, <2>2 DEF FInv
  <1>8. Stream /\ Ring
    BY DEF FInv
  <1> QED BY <1>1, <1>4, <1>5, <1>6, <1>7, <1>8, OutStep

LEMMA FInvAlways == ASSUME NoLap PROVE Spec => []FInv
  <1>1. Init => FInv
    <2> SUFFICES ASSUME Init PROVE FInv
      OBVIOUS
    <2>1. Stream /\ Ring /\ First
      BY InitStream
    <2>2. ~ Started /\ named = FALSE /\ out = <<>>
      BY DEF Init, Started, NewBuffer, reset
    <2>3. Close /\ Played /\ Fresh /\ TimestampsNearAnchor
      BY <2>2 DEF Close, Near, Played, Fresh, TimestampsNearAnchor
    <2> QED BY <2>1, <2>3 DEF FInv
  <1>2. FInv /\ [Next]_vars => FInv'
    BY FInvStep
  <1> QED BY <1>1, <1>2, PTL DEF Spec

\* Every frame is played at its own place in the stream, and the ring, whose
\* slots are unlabelled, holds no packet but the next Capacity of the stream.
THEOREM FramesTheorem ==
    ASSUME NoLap
    PROVE  Spec => []FramesInPlace
  <1>1. FInv => FramesInPlace
    <2> SUFFICES ASSUME FInv PROVE FramesInPlace
      OBVIOUS
    <2>1. \A k \in 1..Len(out) : out[k].frame \in {out[k].pos, None}
      BY DEF FInv, Played
    <2>2. CASE Started
      <3>1. PICK h \in Nat : Window(jitter, pos, h)
        BY <2>2 DEF FInv, Ring
      <3>2. jitter.next_seq = SeqOf(pos)
        BY <3>1 DEF Window
      <3>3. ASSUME NEW f \in Stored PROVE f \in pos..(pos + Capacity - 1)
        <4>1. PICK i \in 0..(Capacity - 1) : f = jitter.slots[i] /\ jitter.slots[i] # None
          BY DEF Stored
        <4>2. f \in pos..h /\ h \in (pos - 1)..(pos + Capacity - 1)
          BY <3>1, <4>1 DEF Window
        <4>3. pos \in Nat
          BY DEF FInv, Stream
        <4> QED BY <4>2, <4>3, Bounds
      <3> QED BY <2>1, <3>2, <3>3 DEF FramesInPlace
    <2>3. CASE ~ Started
      <3>1. jitter = NewBuffer
        BY <2>3 DEF FInv, Ring
      <3>2. jitter.next_seq = None /\ Stored = {}
        BY <3>1 DEF NewBuffer, reset, EmptySlots, Stored
      <3> QED BY <2>1, <3>2 DEF FramesInPlace
    <2> QED BY <2>2, <2>3
  <1> QED BY <1>1, FInvAlways, PTL

\* Each packet, played or concealed, gets the timestamp its sender gave it,
\* across a wrap-around and across a FLUSH, up to half a circle of sequence
\* numbers after the packet that set the anchor.  Farther on derive_ts takes the
\* packet for one before the anchor and gives it the anchor's own timestamp.
THEOREM TimestampsTheorem ==
    ASSUME NoLap
    PROVE  Spec => []TimestampsNearAnchor
  <1>1. FInv => TimestampsNearAnchor
    BY DEF FInv
  <1> QED BY <1>1, FInvAlways, PTL

\* Once a FLUSH that names its first packet is handled, nothing from before it
\* is played, however late it arrives.
THEOREM NoStaleTheorem ==
    ASSUME NoLap
    PROVE  Spec => NoStaleAudio
  <1>1. FInv /\ FInv' /\ [Next]_vars
          => [(named /\ flushes = <<>>) =>
                \A k \in 1..Len(out') : out'[k].frame = None \/ out'[k].frame >= cut]_vars
    <2> SUFFICES ASSUME FInv, FInv', [Next]_vars, named, flushes = <<>>, NEW k \in 1..Len(out')
                 PROVE  out'[k].frame = None \/ out'[k].frame >= cut
      OBVIOUS
    <2>1. named' /\ flushes' = <<>> /\ cut' = cut
      <3>1. cut # 0
        BY Bounds DEF FInv, Stream
      <3>2. ~ HandleFlush /\ ~ \E names \in FlushNames : Flush(names)
        BY <3>1 DEF HandleFlush, Flush
      <3> QED BY <3>2 DEF Next, Send, Lose, Answer, ReceiveAudio, ReceiveResend,
                          ServiceTick, senderVars, vars
    <2>2. out'[k].pos \in Nat /\ out'[k].frame \in {out'[k].pos, None} /\ cut <= out'[k].pos
      BY <2>1 DEF FInv, Played, Fresh
    <2>3. cut \in Nat
      BY Bounds DEF FInv, Stream
    <2>4. PICK x \in Nat : x = out'[k].pos /\ cut <= x
      BY <2>2
    <2> QED BY <2>2, <2>3, <2>4
  <1> QED BY <1>1, FInvAlways, PTL DEF Spec, NoStaleAudio
==============================================================================
