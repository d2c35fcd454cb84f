---------------------------- MODULE ClockSyncProofs ----------------------------
(***************************************************************************)
(* The error of the clock model, for every clock skew, every window and    *)
(* every interval between requests, provided that replies arrive before    *)
(* the next request leaves.                                                *)
(*                                                                         *)
(* The invariant follows a timestamp along the exchange: a request was     *)
(* received after it left, answered after it was received, and the answer  *)
(* is not from the future.  With the pairing of a reply and its request    *)
(* (the only step that needs MaxDelay < Interval) each sample is within    *)
(* half its round trip, and the model keeps one of the samples.            *)
(***************************************************************************)
EXTENDS ClockSync, TLAPS

Samples == [rtt : Nat, offset : Int]

Types ==
    /\ now \in 0..MaxTime /\ departure \in Nat \cup {None}
    /\ requests \subseteq Nat
    /\ replies \subseteq [sent : Nat, receive : Nat, transmit : Nat]
    /\ samples \in Seq(Samples) /\ Len(samples) <= Window
    /\ offset \in Int \cup {None}
    /\ anchor \in [remote : Nat, rtp : Seqs] \cup {None}

\* The last request, or so long ago that no reply arrives any more.
Paired(t) == departure # None /\ (t = departure \/ t + Interval <= departure)

Causal ==
    /\ departure # None => departure <= now
    /\ \A t \in requests : t <= now /\ Paired(t)
    /\ \A r \in replies : /\ r.sent + Skew <= r.receive
                          /\ r.receive <= r.transmit
                          /\ r.transmit <= now + Skew
                          /\ Paired(r.sent)

\* An estimate within half the round trip rtt, rounded down.
Within(off, rtt) == 2 * (off - Skew) <= rtt /\ 2 * (Skew - off) <= rtt + 1

SamplesWithin == \A i \in 1..Len(samples) : Within(samples[i].offset, samples[i].rtt)

Kept ==
    offset # None =>
        \E i \in 1..Len(samples) :
            /\ \A j \in 1..Len(samples) : samples[i].rtt <= samples[j].rtt
            /\ offset = samples[i].offset

IInv == Types /\ Causal /\ SamplesWithin /\ Kept

\* What a complete exchange measures (add_timing).
LEMMA Exchange ==
    ASSUME NEW t1 \in Nat, NEW t2 \in Nat, NEW t3 \in Nat, NEW t4 \in Nat,
           t1 + Skew <= t2, t2 <= t3, t3 <= t4 + Skew
    PROVE  LET rtt == (t4 - t1) - (t3 - t2)
           IN  rtt \in Nat /\ OffsetOf(t3, t4, rtt) \in Int /\ Within(OffsetOf(t3, t4, rtt), rtt)
  <1> DEFINE rtt == (t4 - t1) - (t3 - t2)
  <1>1. rtt \in Nat /\ t3 - t4 - Skew <= 0 /\ Skew - t3 + t4 <= rtt
    BY ClockAssumption
  <1> HIDE DEF rtt
  <1>2. rtt \div 2 \in Int /\ 2 * (rtt \div 2) <= rtt /\ rtt <= 2 * (rtt \div 2) + 1
    BY <1>1
  <1>3. OffsetOf(t3, t4, rtt) \in Int /\ Within(OffsetOf(t3, t4, rtt), rtt)
    BY <1>1, <1>2, ClockAssumption DEF OffsetOf, Within
  <1> QED BY <1>1, <1>3 DEF rtt

LEMMA PushedSamples ==
    ASSUME NEW ss \in Seq(Samples), Len(ss) <= Window, NEW s \in Samples
    PROVE  /\ Pushed(ss, s) \in Seq(Samples)
           /\ Len(Pushed(ss, s)) <= Window
           /\ \A i \in 1..Len(Pushed(ss, s)) :
                 \/ Pushed(ss, s)[i] = s
                 \/ \E j \in 1..Len(ss) : Pushed(ss, s)[i] = ss[j]
  <1>1. CASE Len(ss) = Window
    <2> DEFINE tl == Tail(ss)
    <2>1. ss # <<>>
      BY <1>1, ClockAssumption
    <2>2. /\ tl \in Seq(Samples) /\ Len(tl) = Len(ss) - 1
          /\ \A i \in 1..Len(tl) : i + 1 \in 1..Len(ss) /\ tl[i] = ss[i + 1]
      BY <2>1
    <2> HIDE DEF tl
    <2>3. Pushed(ss, s) = Append(tl, s)
      BY <1>1 DEF Pushed, tl
    <2> QED BY <1>1, <2>2, <2>3
  <1>2. CASE Len(ss) # Window
    BY <1>2, ClockAssumption DEF Pushed
  <1> QED BY <1>1, <1>2

LEMMA InitIInv == ClockInit => IInv
  BY ClockAssumption
     DEF ClockInit, IInv, Types, Causal, SamplesWithin, Kept, Samples

\* Steps that add no sample.
LEMMA NoSample ==
    ASSUME IInv, UNCHANGED <<samples, offset>> PROVE SamplesWithin' /\ Kept'
  BY DEF IInv, SamplesWithin, Kept

LEMMA TickIInv == ASSUME IInv, Tick PROVE IInv'
  <1>1. Types' /\ Causal'
    BY ClockAssumption DEF Tick, IInv, Types, Causal, Paired
  <1> QED BY <1>1, NoSample DEF IInv, Tick

LEMMA TimingRequestIInv == ASSUME IInv, TimingRequest PROVE IInv'
  <1>1. Types'
    <2>1. now \in Nat
      BY ClockAssumption DEF IInv, Types
    <2>2. departure' \in Nat \cup {None} /\ requests' \subseteq Nat
      BY <2>1 DEF TimingRequest, IInv, Types
    <2> QED BY <2>2 DEF TimingRequest, IInv, Types
  <1>2. \A t : Paired(t) /\ t \in Nat => Paired(t)'
    BY ClockAssumption, NoneIsNoNumber DEF TimingRequest, IInv, Types, Paired
  <1>3. departure' = now /\ now' = now /\ Paired(now)'
    BY ClockAssumption, NoneIsNoNumber DEF TimingRequest, IInv, Types, Paired
  <1>4. Causal'
    BY <1>2, <1>3 DEF TimingRequest, IInv, Types, Causal
  <1> QED BY <1>1, <1>4, NoSample DEF IInv, TimingRequest

LEMMA SenderRepliesIInv ==
    ASSUME IInv, NEW t \in requests, SenderReplies(t) PROVE IInv'
  <1>1. PICK p \in 0..MaxService :
          /\ t + p <= now
          /\ replies' = replies \cup
                {[sent |-> t, receive |-> now - p + Skew, transmit |-> now + Skew]}
    BY DEF SenderReplies
  <1>2. requests' \subseteq requests /\ UNCHANGED <<now, departure, samples, offset, anchor>>
    BY DEF SenderReplies
  <1>3. /\ t \in Nat /\ Paired(t)
        /\ now - p + Skew \in Nat /\ now + Skew \in Nat /\ t + Skew <= now - p + Skew
    <2>1. Paired(t) /\ t \in Nat
      BY DEF IInv, Types, Causal
    <2>2. now \in Nat /\ p \in Nat /\ Skew \in Nat
      BY ClockAssumption DEF IInv, Types
    <2> QED BY <1>1, <2>1, <2>2
  <1>4. Types'
    BY <1>1, <1>2, <1>3 DEF IInv, Types
  <1>5. Causal'
    <2>1. \A u : Paired(u)' <=> Paired(u)
      BY <1>2 DEF Paired
    <2>2. \A u \in requests' : u <= now' /\ Paired(u)'
      BY <1>2, <2>1 DEF IInv, Causal
    <2>3. ASSUME NEW r \in replies'
          PROVE  /\ r.sent + Skew <= r.receive
                 /\ r.receive <= r.transmit
                 /\ r.transmit <= now + Skew
                 /\ Paired(r.sent)
      <3>1. CASE r \in replies
        BY <3>1 DEF IInv, Causal
      <3>2. CASE r = [sent |-> t, receive |-> now - p + Skew, transmit |-> now + Skew]
        <4>1. now \in Nat /\ p \in Nat
          BY ClockAssumption DEF IInv, Types
        <4>2. now - p + Skew <= now + Skew
          BY <4>1, ClockAssumption
        <4> QED BY <1>3, <3>2, <4>1, <4>2, ClockAssumption
      <3> QED BY <1>1, <3>1, <3>2
    <2> QED BY <1>2, <2>1, <2>2, <2>3 DEF IInv, Causal
  <1> QED BY <1>2, <1>4, <1>5, NoSample DEF IInv

LEMMA TimingReplyIInv ==
    ASSUME IInv, MaxDelay < Interval, NEW r \in replies, TimingReply(r) PROVE IInv'
  <1> DEFINE t1 == departure
             rtt == (now - t1) - (r.transmit - r.receive)
             s == [rtt |-> rtt, offset |-> OffsetOf(r.transmit, now, rtt)]
  <1>1. /\ replies' \subseteq replies
        /\ UNCHANGED <<now, departure, requests, anchor>>
        /\ now - r.sent <= MaxDelay
    BY DEF TimingReply
  <1>2. /\ r.sent \in Nat /\ r.receive \in Nat /\ r.transmit \in Nat /\ now \in Nat
        /\ departure \in Nat /\ departure <= now
        /\ r.sent = departure \/ r.sent + Interval <= departure
    BY DEF IInv, Types, Causal, Paired
  \* A reply to an earlier request would be older than MaxDelay.
  <1>3. r.sent = departure
    BY <1>1, <1>2, ClockAssumption
  <1>4. rtt \in Nat /\ s \in Samples /\ Within(s.offset, s.rtt)
    <2>1. departure + Skew <= r.receive /\ r.receive <= r.transmit /\ r.transmit <= now + Skew
      BY <1>3 DEF IInv, Causal
    <2>2. rtt \in Nat /\ OffsetOf(r.transmit, now, rtt) \in Int
          /\ Within(OffsetOf(r.transmit, now, rtt), rtt)
      BY <1>2, <2>1, Exchange
    <2> QED BY <2>2 DEF Samples
  <1>5. /\ samples' = Pushed(samples, s)
        /\ \E i \in 1..Len(samples') : Lowest(samples', i) /\ offset' = samples'[i].offset
    BY <1>2, <1>4, <1>3 DEF TimingReply, add_timing, IInv, Causal
  <1> HIDE DEF s, rtt, t1
  <1>6. /\ samples' \in Seq(Samples) /\ Len(samples') <= Window
        /\ \A i \in 1..Len(samples') :
              samples'[i] = s \/ \E j \in 1..Len(samples) : samples'[i] = samples[j]
    BY <1>4, <1>5, PushedSamples DEF IInv, Types
  <1>7. Types'
    <2>1. PICK i \in 1..Len(samples') : offset' = samples'[i].offset
      BY <1>5
    <2>2. samples'[i] \in Samples
      BY <1>6
    <2>3. offset' \in Int
      BY <2>1, <2>2 DEF Samples
    <2> QED BY <1>1, <1>6, <2>3 DEF IInv, Types
  <1>8. Causal'
    BY <1>1 DEF IInv, Causal, Paired
  <1>9. SamplesWithin'
    BY <1>4, <1>6 DEF IInv, SamplesWithin, Within
  <1>10. Kept'
    BY <1>5 DEF Kept, Lowest
  <1> QED BY <1>7, <1>8, <1>9, <1>10 DEF IInv

\* The quotient of a division is the one number of divisors below.
LEMMA Quotient ==
    ASSUME NEW x \in Nat, NEW r \in Nat \ {0}
    PROVE  x \div r \in Nat /\ r * (x \div r) <= x /\ x < r * (x \div r) + r
  OBVIOUS

LEMMA FewerMultiples ==
    ASSUME NEW p \in Int, NEW q \in Int, NEW r \in Nat \ {0}, r * p < r * q
    PROVE  p < q
  OBVIOUS

\* Dividing a sum is dividing its parts, or one more.
LEMMA SumOfQuotients ==
    ASSUME NEW x \in Nat, NEW y \in Nat, NEW r \in Nat \ {0}
    PROVE  (x + y) \div r - (x \div r + y \div r) \in {0, 1}
  <1>0. x \div r \in Nat /\ y \div r \in Nat /\ (x + y) \div r \in Nat
    <2>1. x + y \in Nat
      OBVIOUS
    <2> QED BY <2>1, Quotient
  <1>1. PICK p \in Nat, q \in Nat, s \in Nat :
          p = x \div r /\ q = y \div r /\ s = (x + y) \div r
    BY <1>0
  <1>2. /\ r * p <= x /\ x < r * p + r
        /\ r * q <= y /\ y < r * q + r
        /\ r * s <= x + y /\ x + y < r * s + r
    BY <1>1, Quotient
  <1>3. r * (p + q) = r * p + r * q /\ r * (s + 1) = r * s + r
        /\ r * (p + q + 2) = r * p + r * q + r + r
    OBVIOUS
  <1>4. r * (p + q) < r * (s + 1) /\ r * s < r * (p + q + 2)
    BY <1>2, <1>3
  <1>5. p + q < s + 1 /\ s < p + q + 2
    BY <1>4, FewerMultiples
  <1> QED BY <1>1, <1>5

LEMMA DueInNat == ASSUME NEW f \in Nat PROVE DueAt(f) \in Nat
  <1>1. f * Second \in Nat
    BY ClockAssumption
  <1> QED BY <1>1, Quotient, ClockAssumption DEF DueAt

LEMMA SyncPacketIInv == ASSUME IInv, NEW f \in 0..MaxFrame, SyncPacket(f) PROVE IInv'
  <1>1. f \in 0..SeqSpace /\ DueAt(f) + Skew \in Nat
    BY DueInNat, ClockAssumption, SeqSpaceAssumption
  <1>2. RtpOf(f) \in Seqs
    BY <1>1, SeqSpaceAssumption, ClockAssumption DEF RtpOf, Plus, Seqs
  <1>3. Types'
    BY <1>1, <1>2 DEF SyncPacket, IInv, Types
  <1>4. Causal'
    BY DEF SyncPacket, IInv, Causal, Paired
  <1> QED BY <1>3, <1>4, NoSample DEF SyncPacket, IInv

LEMMA NextIInv == MaxDelay < Interval /\ IInv /\ [ClockNext]_clockVars => IInv'
  <1> SUFFICES ASSUME MaxDelay < Interval, IInv, [ClockNext]_clockVars PROVE IInv'
    OBVIOUS
  <1>1. CASE Tick
    BY <1>1, TickIInv
  <1>2. CASE TimingRequest
    BY <1>2, TimingRequestIInv
  <1>3. CASE \E t \in requests : SenderReplies(t)
    BY <1>3, SenderRepliesIInv
  <1>4. CASE \E r \in replies : TimingReply(r)
    BY <1>4, TimingReplyIInv
  <1>5. CASE \E f \in 0..MaxFrame : SyncPacket(f)
    BY <1>5, SyncPacketIInv
  <1>6. CASE UNCHANGED clockVars
    BY <1>6 DEF clockVars, IInv, Types, Causal, Paired, SamplesWithin, Kept
  <1> QED BY <1>1, <1>2, <1>3, <1>4, <1>5, <1>6 DEF ClockNext

\* While replies arrive before the next request leaves, the estimated offset
\* is within half the best round trip of the true one (add_timing).
THEOREM OffsetTheorem == MaxDelay < Interval => (ClockSpec => []OffsetWithin)
  <1>1. IInv => OffsetWithin
    BY DEF IInv, SamplesWithin, Within, Kept, OffsetWithin
  <1>2. MaxDelay < Interval /\ IInv /\ [ClockNext]_clockVars => IInv'
    BY NextIInv
  <1>3. ClockInit => IInv
    BY InitIInv
  <1>4. CASE MaxDelay < Interval
    <2>1. IInv /\ [ClockNext]_clockVars => IInv'
      BY <1>2, <1>4
    <2> QED BY <1>1, <1>3, <2>1, PTL DEF ClockSpec
  <1>5. CASE ~ (MaxDelay < Interval)
    BY <1>5
  <1> QED BY <1>4, <1>5

------------------------------------------------------------------------------
\* The anchor is some frame's timestamp at that frame's time.
Anchored ==
    anchor # None =>
        \E f \in 0..MaxFrame : anchor = [remote |-> DueAt(f) + Skew, rtp |-> RtpOf(f)]

LEMMA NextAnchored == IInv /\ Anchored /\ [ClockNext]_clockVars => Anchored'
  <1> SUFFICES ASSUME IInv, Anchored, [ClockNext]_clockVars PROVE Anchored'
    OBVIOUS
  <1>1. CASE \E f \in 0..MaxFrame : SyncPacket(f)
    BY <1>1 DEF SyncPacket, Anchored
  <1>2. CASE UNCHANGED anchor
    BY <1>2 DEF Anchored
  <1> QED
    BY <1>1, <1>2
       DEF ClockNext, clockVars, Tick, TimingRequest, SenderReplies, TimingReply

\* The timestamps of two frames are as far apart as the frames.
LEMMA RtpDistance ==
    ASSUME NEW f \in 0..MaxFrame, NEW g \in 0..MaxFrame
    PROVE  seq_diff(RtpOf(g), RtpOf(f)) = g - f
  <1>1. FirstRtp \in Int /\ f \in Int /\ g \in Int
    BY ClockAssumption, SeqSpaceAssumption DEF Seqs
  <1>2. 2 * (g - f) < SeqSpace /\ - SeqSpace <= 2 * (g - f)
    BY ClockAssumption, SeqSpaceAssumption
  <1> QED
    BY <1>1, <1>2, ClockAssumption, SeqSpaceAssumption
       DEF RtpOf, Plus, Turn, seq_diff, Seqs

\* Counted from the anchor's frame, a frame is due within a tick of when it is.
LEMMA FromAnchor ==
    ASSUME NEW a \in Nat, NEW f \in Nat
    PROVE  /\ ToTicks(f - a) \in Int
           /\ DueAt(f) - (DueAt(a) + ToTicks(f - a)) \in -1..1
  <1>1. CASE f >= a
    <2>1. PICK x \in Nat, y \in Nat : x = a * Second /\ y = (f - a) * Second /\ f * Second = x + y
      BY <1>1, ClockAssumption
    <2>2. /\ DueAt(a) = x \div SampleRate /\ DueAt(f) = (x + y) \div SampleRate
          /\ ToTicks(f - a) = y \div SampleRate
      BY <1>1, <2>1 DEF DueAt, ToTicks
    <2>3. x \div SampleRate \in Nat /\ y \div SampleRate \in Nat /\ (x + y) \div SampleRate \in Nat
      BY Quotient, ClockAssumption
    <2>4. (x + y) \div SampleRate - (x \div SampleRate + y \div SampleRate) \in {0, 1}
      BY SumOfQuotients, ClockAssumption
    <2> QED BY <2>2, <2>3, <2>4
  <1>2. CASE f < a
    <2>1. PICK x \in Nat, y \in Nat : x = f * Second /\ y = (- (f - a)) * Second /\ a * Second = x + y
      BY <1>2, ClockAssumption
    <2>2. /\ DueAt(f) = x \div SampleRate /\ DueAt(a) = (x + y) \div SampleRate
          /\ ToTicks(f - a) = - (y \div SampleRate)
      BY <1>2, <2>1 DEF DueAt, ToTicks
    <2>3. x \div SampleRate \in Nat /\ y \div SampleRate \in Nat /\ (x + y) \div SampleRate \in Nat
      BY Quotient, ClockAssumption
    <2>4. (x + y) \div SampleRate - (x \div SampleRate + y \div SampleRate) \in {0, 1}
      BY SumOfQuotients, ClockAssumption
    <2> QED BY <2>2, <2>3, <2>4
  <1> QED BY <1>1, <1>2

LEMMA StartFromIInv == IInv /\ Anchored => StartInTime
  <1> SUFFICES ASSUME IInv, Anchored, NEW f \in 0..MaxFrame, play_time(RtpOf(f)) # None
               PROVE  \E i \in 1..Len(samples) :
                         /\ \A j \in 1..Len(samples) : samples[i].rtt <= samples[j].rtt
                         /\ 2 * (DueAt(f) - play_time(RtpOf(f))) <= samples[i].rtt + 2
                         /\ 2 * (play_time(RtpOf(f)) - DueAt(f)) <= samples[i].rtt + 3
    BY DEF StartInTime
  <1>1. /\ offset # None /\ anchor # None
        /\ play_time(RtpOf(f)) = PlayInstant(RtpOf(f), offset, anchor)
    BY DEF play_time
  <1>2. PICK a \in 0..MaxFrame : anchor = [remote |-> DueAt(a) + Skew, rtp |-> RtpOf(a)]
    BY <1>1 DEF Anchored
  <1>3. f \in Nat /\ a \in Nat /\ offset \in Int /\ Skew \in Int
    BY <1>1, ClockAssumption DEF IInv, Types
  <1>4. play_time(RtpOf(f)) = DueAt(a) + Skew - offset + ToTicks(f - a)
    <2>1. anchor.remote = DueAt(a) + Skew /\ anchor.rtp = RtpOf(a)
      BY <1>2
    <2>2. seq_diff(RtpOf(f), RtpOf(a)) = f - a
      BY RtpDistance
    <2>3. DueAt(a) \in Nat /\ ToTicks(f - a) \in Int
      BY <1>3, DueInNat, FromAnchor
    <2>4. PlayInstant(RtpOf(f), offset, anchor)
            = anchor.remote - offset + ToTicks(seq_diff(RtpOf(f), anchor.rtp))
      BY DEF PlayInstant
    <2> QED BY <1>1, <1>3, <2>1, <2>2, <2>3, <2>4
  <1>5. PICK i \in 1..Len(samples) :
          /\ \A j \in 1..Len(samples) : samples[i].rtt <= samples[j].rtt
          /\ 2 * (offset - Skew) <= samples[i].rtt
          /\ 2 * (Skew - offset) <= samples[i].rtt + 1
    BY <1>1 DEF IInv, SamplesWithin, Within, Kept
  <1>6. samples[i].rtt \in Nat
    <2>1. samples[i] \in Samples
      BY <1>5 DEF IInv, Types
    <2> QED BY <2>1 DEF Samples
  <1>7. /\ DueAt(f) \in Nat /\ DueAt(a) \in Nat /\ ToTicks(f - a) \in Int
        /\ DueAt(f) - (DueAt(a) + ToTicks(f - a)) \in -1..1
    BY <1>3, DueInNat, FromAnchor
  <1>8. /\ 2 * (DueAt(f) - play_time(RtpOf(f))) <= samples[i].rtt + 2
        /\ 2 * (play_time(RtpOf(f)) - DueAt(f)) <= samples[i].rtt + 3
    <2> DEFINE rtt == samples[i].rtt
               due == DueAt(f)
               base == DueAt(a)
               ticks == ToTicks(f - a)
               play == play_time(RtpOf(f))
    <2>1. /\ rtt \in Nat /\ due \in Nat /\ base \in Nat /\ ticks \in Int
          /\ due - (base + ticks) \in -1..1 /\ play = base + Skew - offset + ticks
          /\ 2 * (offset - Skew) <= rtt /\ 2 * (Skew - offset) <= rtt + 1
      BY <1>4, <1>5, <1>6, <1>7
    <2> HIDE DEF rtt, due, base, ticks, play
    <2>2. 2 * (due - play) <= rtt + 2 /\ 2 * (play - due) <= rtt + 3
      BY <1>3, <2>1
    <2> QED BY <2>2 DEF rtt, due, play
  <1> QED BY <1>5, <1>8

\* Under the same condition the first frame, whichever it is, is due within
\* half the best round trip of the instant the sender intends, and a tick for
\* the division (play_time).
THEOREM StartTheorem == MaxDelay < Interval => (ClockSpec => []StartInTime)
  <1>1. ClockInit => IInv /\ Anchored
    BY InitIInv DEF ClockInit, Anchored
  <1>2. CASE MaxDelay < Interval
    <2>1. IInv /\ Anchored /\ [ClockNext]_clockVars => (IInv /\ Anchored)'
      BY NextIInv, NextAnchored, <1>2
    <2> QED BY <1>1, StartFromIInv, <2>1, PTL DEF ClockSpec
  <1>3. CASE ~ (MaxDelay < Interval)
    BY <1>3
  <1> QED BY <1>2, <1>3
=============================================================================
