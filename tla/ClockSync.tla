------------------------------ MODULE ClockSync ------------------------------
(***************************************************************************)
(* The clock model (clock.rs) fed by the timing exchange (timing_task) and *)
(* by sync packets (control_receiver), from which the playback thread      *)
(* takes the instant of the first frame.                                   *)
(*                                                                         *)
(* Time passes in ticks, nanoseconds in the code, of which Second make     *)
(* SampleRate frames.  The sender's clock is Skew ahead of ours, and frame *)
(* f, RtpOf(f) on the wire, is due at our time DueAt(f): the truth that    *)
(* the code estimates and the properties compare it with.  Requests,       *)
(* replies and sync packets are delayed, lost and reordered.               *)
(***************************************************************************)
EXTENDS SeqCircle, Option, Sequences

CONSTANTS Skew,        \* the sender's clock minus ours
          FirstRtp,    \* RTP timestamp of frame 0
          Second,      \* ticks in a second: 10^9 in the code
          SampleRate,  \* sample_rate: frames in a second
          Interval,    \* ticks between two timing requests
          MaxDelay,    \* bound: how long after its request a reply can arrive
          MaxService,  \* bound: how long the sender takes to answer
          Window,      \* WINDOW, 8 in the code
          MaxTime,     \* bound: when the behaviour ends
          MaxFrame     \* bound: the last frame; half a circle of RTP timestamps

ASSUME ClockAssumption ==
    /\ Skew \in Nat /\ FirstRtp \in Seqs
    /\ Interval \in Nat \ {0} /\ MaxDelay \in Nat /\ MaxService \in Nat
    /\ Second \in Nat /\ SampleRate \in Nat \ {0}
    /\ Window \in Nat \ {0} /\ MaxTime \in Nat
    /\ MaxFrame \in Nat /\ 2 * MaxFrame < SeqSpace

VARIABLES
    now,         \* clock::now_ns
    departure,   \* when the last timing request left, or None
    requests,    \* timing requests in flight, by the time they left
    replies,     \* timing replies in flight; sent is not in the datagram
    samples,     \* ClockModel::samples
    offset,      \* ClockModel::offset
    anchor       \* ClockModel::anchor

clockVars == <<now, departure, requests, replies, samples, offset, anchor>>

ClockInit ==
    /\ now = 0 /\ departure = None
    /\ requests = {} /\ replies = {}
    /\ samples = <<>> /\ offset = None /\ anchor = None

RtpOf(f) == Plus(FirstRtp, f)

\* The tick in which frame f is due.
DueAt(f) == (f * Second) \div SampleRate

Tick ==
    /\ now < MaxTime
    /\ now' = now + 1
    /\ UNCHANGED <<departure, requests, replies, samples, offset, anchor>>

------------------------------------------------------------------------------
(* The sender and the network (not under src/). *)

\* The sender answers now a request it received p ticks ago.
SenderReplies(t) ==
    \E p \in 0..MaxService :
        /\ t + p <= now
        /\ requests' = requests \ {t}
        /\ replies' = replies \cup
              {[sent |-> t, receive |-> now - p + Skew, transmit |-> now + Skew]}
        /\ UNCHANGED <<now, departure, samples, offset, anchor>>

------------------------------------------------------------------------------
\* The head of the loop of timing_task.
TimingRequest ==
    /\ now >= IF departure = None THEN 0 ELSE departure + Interval
    /\ departure' = now
    /\ requests' = requests \cup {now}
    /\ UNCHANGED <<now, replies, samples, offset, anchor>>

\* The window after one more sample.
Pushed(ss, s) == Append(IF Len(ss) = Window THEN Tail(ss) ELSE ss, s)

\* min_by_key returns the first of the samples with the lowest round trip.
Lowest(ss, i) ==
    \A j \in 1..Len(ss) : /\ ss[i].rtt <= ss[j].rtt
                          /\ j < i => ss[i].rtt < ss[j].rtt

\* Mutant: half the round trip is subtracted.
OffsetBehind(t3, t4, rtt) == t3 - rtt \div 2 - t4

\* The sender's clock at our arrival instant, minus ours.
OffsetOf(t3, t4, rtt) == t3 + rtt \div 2 - t4

add_timing(t1, t2, t3, t4) ==
    LET rtt == (t4 - t1) - (t3 - t2)
    IN  IF t4 < t1 \/ t3 < t2 \/ rtt < 0
        THEN UNCHANGED <<samples, offset>>
        ELSE /\ samples' = Pushed(samples, [rtt |-> rtt, offset |-> OffsetOf(t3, t4, rtt)])
             /\ \E i \in 1..Len(samples') :
                   /\ Lowest(samples', i)
                   /\ offset' = samples'[i].offset

\* A reply carries the sender's two times only: it is paired with the last
\* request, whichever request it answers.
TimingReply(r) ==
    /\ now - r.sent <= MaxDelay
    /\ \/ replies' = replies \ {r}
       \/ replies' = replies            \* the network delivers a second copy later
    /\ add_timing(departure, r.receive, r.transmit, now)
    /\ UNCHANGED <<now, departure, requests, anchor>>

\* control_receiver: a sync packet that left the sender when frame f was due.
SyncPacket(f) ==
    /\ DueAt(f) <= now
    /\ anchor' = [remote |-> DueAt(f) + Skew, rtp |-> RtpOf(f)]
    /\ UNCHANGED <<now, departure, requests, replies, samples, offset>>

ClockNext ==
    \/ Tick
    \/ TimingRequest
    \/ \E t \in requests : SenderReplies(t)
    \/ \E r \in replies : TimingReply(r)
    \/ \E f \in 0..MaxFrame : SyncPacket(f)

ClockSpec == ClockInit /\ [][ClockNext]_clockVars

------------------------------------------------------------------------------
\* A signed number of frames in ticks; the division rounds towards zero.
ToTicks(frames) ==
    IF frames < 0 THEN - (((- frames) * Second) \div SampleRate) ELSE (frames * Second) \div SampleRate

\* Mutant: the distance to the anchor is not signed.
PlayForward(rtp, off, a) == a.remote - off + ToTicks(Turn(rtp, a.rtp))

\* The instant a frame should play; a negative one is no instant.
PlayInstant(rtp, off, a) == a.remote - off + ToTicks(seq_diff(rtp, a.rtp))

play_time(rtp) ==
    IF offset = None \/ anchor = None \/ PlayInstant(rtp, offset, anchor) < 0
    THEN None ELSE PlayInstant(rtp, offset, anchor)

\* The estimate differs from the true offset by at most half the best round
\* trip in the window (clock.rs, header: "the lowest-RTT exchange").
OffsetWithin ==
    offset # None =>
        \E i \in 1..Len(samples) :
            /\ \A j \in 1..Len(samples) : samples[i].rtt <= samples[j].rtt
            /\ 2 * (offset - Skew) <= samples[i].rtt
            /\ 2 * (Skew - offset) <= samples[i].rtt + 1

\* So playback starts within half the best round trip, and a tick for the
\* division, of the instant the sender intends, whatever frame comes first,
\* across the wrap-around of the timestamps and whichever sync packet, of this
\* frame or of one long before or after it, came last.
StartInTime ==
    \A f \in 0..MaxFrame : play_time(RtpOf(f)) # None =>
        \E i \in 1..Len(samples) :
            /\ \A j \in 1..Len(samples) : samples[i].rtt <= samples[j].rtt
            /\ 2 * (DueAt(f) - play_time(RtpOf(f))) <= samples[i].rtt + 2
            /\ 2 * (play_time(RtpOf(f)) - DueAt(f)) <= samples[i].rtt + 3
=============================================================================
