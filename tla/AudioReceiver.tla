---------------------------- MODULE AudioReceiver ----------------------------
(***************************************************************************)
(* The audio task of a session (session.rs, audio_receiver) between the    *)
(* sender, an unreliable network and the player: packets received on the   *)
(* audio socket and resend replies forwarded by the control task go        *)
(* through the jitter buffer, a service tick asks for what is missing, and *)
(* FLUSH requests arrive from the RTSP handler through a channel.          *)
(*                                                                         *)
(* The sender numbers its packets 0, 1, 2, ...; packet p travels with the  *)
(* sequence number SeqOf(p) and a timestamp in units of one packet.  The   *)
(* buffer stores the number p as the frame, so that a frame played at the  *)
(* wrong position shows.  pos, the absolute number of the packet the       *)
(* buffer delivers next, newest, the newest packet that reached the task,  *)
(* and named are history variables: no action of the code reads them.      *)
(***************************************************************************)
EXTENDS JitterRing, FiniteSets

CONSTANTS Start,       \* sequence number of packet 0
          MaxPackets,  \* bound: packets the sender sends
          Reorder,     \* bound: a packet is overtaken by fewer than Reorder others
          Retain,      \* bound: packets the sender can resend, and how late
          Outage,      \* bound: consecutive packets the network may lose
          Backoff,     \* RESEND_BACKOFF in units of the tracker's clock
          FlushNames,  \* may the (one) FLUSH carry RTP-Info seq, or lack it?
          Jump         \* how far the timestamps jump at a flush point

ASSUME AudioAssumption ==
    /\ Start \in Seqs
    /\ {MaxPackets, Reorder, Retain, Outage, Backoff, Jump} \subseteq Nat
    /\ 2 * Retain < SeqSpace
    /\ Reorder > 0 /\ Reorder + MaxLead <= Capacity
    /\ FlushNames \subseteq BOOLEAN
    /\ None \notin [seq : Seqs, ts : Nat]

VARIABLES
    sent,      \* sender: packets sent so far
    cut,       \* sender: the first packet after its last FLUSH (0 at first)
    wire,      \* audio packets in flight, duplicates allowed
    asked,     \* resend requests in flight, by sequence number
    replies,   \* resend replies in flight or in the `resends` channel
    flushes,   \* the flush channel: first packet after the flush, or None
    jitter,    \* the JitterBuffer
    anchor,    \* (seq, timestamp) of the first packet, or None
    last,      \* ResendTracker: time since each sequence number was asked for
    out,       \* what the last step handed to the player
    pos, newest,
    named      \* history: did the last FLUSH name its first packet?

senderVars == <<sent, cut, named>>
vars == <<sent, cut, named, wire, asked, replies, flushes, jitter, anchor, last, out,
          pos, newest>>

SeqOf(p) == (Start + p) % SeqSpace

\* Timestamps start at 1 (0 is what a missing anchor yields) and jump when the
\* sender resumes after a FLUSH.
Ts(p) == IF p >= cut /\ cut > 0 THEN p + 1 + Jump ELSE p + 1

Init ==
    /\ sent = 0 /\ cut = 0 /\ named = FALSE
    /\ wire = {} /\ asked = {} /\ replies = {} /\ flushes = <<>>
    /\ jitter = NewBuffer /\ anchor = None /\ last = <<>>
    /\ out = <<>> /\ pos = 0 /\ newest = None

------------------------------------------------------------------------------
(* The sender and the network (not under src/). *)

Newer(p) == newest # None /\ newest > p

\* The sender waits for no one; the bounds limit reordering and outages.
Send ==
    /\ sent < MaxPackets
    /\ \A p \in wire : sent - p < Reorder
    /\ \A p \in replies : sent - p < Retain
    /\ sent - (IF newest = None THEN 0 ELSE newest) <= Outage
    /\ flushes # <<>> => sent - cut < Reorder
    /\ sent' = sent + 1
    /\ wire' = wire \cup {sent}
    /\ UNCHANGED <<cut, named, asked, replies, flushes, jitter, anchor, last, out, pos, newest>>

Lose ==
    /\ \/ \E p \in wire : wire' = wire \ {p} /\ UNCHANGED <<asked, replies>>
       \/ \E s \in asked : asked' = asked \ {s} /\ UNCHANGED <<wire, replies>>
       \/ \E p \in replies : replies' = replies \ {p} /\ UNCHANGED <<wire, asked>>
    /\ UNCHANGED <<senderVars, flushes, jitter, anchor, last, out, pos, newest>>

\* The sender answers, if it still has the packet, on the control channel;
\* control_receiver forwards the answer.
Answer(s) ==
    /\ s \in asked
    /\ asked' = asked \ {s}
    /\ LET matching == {p \in 0..(sent - 1) : SeqOf(p) = s /\ sent - p <= Retain}
       IN  replies' = replies \cup matching
    /\ UNCHANGED <<senderVars, wire, flushes, jitter, anchor, last, out, pos, newest>>

\* Bound: one FLUSH in a behaviour (cut = 0).
\* FLUSH over RTSP: the handler puts the sequence number into the channel and
\* answers; the packets that follow may overtake it.
Flush(names) ==
    /\ cut = 0 /\ sent > 0
    /\ cut' = sent /\ named' = names
    /\ flushes' = Append(flushes, IF names THEN sent ELSE None)
    /\ UNCHANGED <<sent, wire, asked, replies, jitter, anchor, last, out, pos, newest>>

------------------------------------------------------------------------------
(* The audio task: one action per branch of its select!. *)

\* Mutant: the distance to the anchor ignores the wrap-around.
UnwrappedTs(seq, a) == IF a = None THEN 0 ELSE a.ts + (IF seq < a.seq THEN 0 ELSE seq - a.seq)

derive_ts(seq, a) ==
    IF a = None THEN 0
    ELSE a.ts + (LET d == seq_diff(seq, a.seq) IN IF d < 0 THEN 0 ELSE d)

\* drain_deliveries on buffer b, whose next packet is number p
Drain(b, p, a) ==
    \E n \in 0..Capacity :
        /\ StopsAfter(b, n)
        /\ jitter' = Popped(b, n)
        /\ pos' = p + n
        /\ out' = [k \in 1..n |->
                      LET d == Deliveries(b, n)[k]
                      IN  [pos |-> p + k - 1, frame |-> d.frame,
                           ts |-> derive_ts(d.seq, a)]]

\* The first packet of a stream defines the position.
Base(p) == IF jitter.next_seq = None THEN p ELSE pos

ReceiveAudio(p) ==
    /\ p \in wire
    /\ \/ wire' = wire \ {p}
       \/ wire' = wire            \* the network delivers a second copy later
    /\ newest' = IF Newer(p) THEN newest ELSE p
    /\ anchor' = IF anchor = None THEN [seq |-> SeqOf(p), ts |-> Ts(p)] ELSE anchor
    /\ Drain(insert(jitter, SeqOf(p), p), Base(p), anchor')
    /\ UNCHANGED <<senderVars, asked, replies, flushes, last>>

ReceiveResend(p) ==
    /\ p \in replies
    /\ replies' = replies \ {p}
    /\ Drain(insert(jitter, SeqOf(p), p), Base(p), anchor)
    /\ UNCHANGED <<senderVars, wire, asked, flushes, anchor, last, newest>>

\* ResendTracker::due after e units of time: what is missing and was not asked
\* for within the backoff.
Aged(e) == [s \in DOMAIN last |-> IF last[s] + e > Backoff THEN Backoff ELSE last[s] + e]

due(missed, ages) == {s \in missed : s \notin DOMAIN ages \/ ages[s] >= Backoff}

\* request_resends: nothing is pruned or asked for while nothing is missing.
RequestResends(missed, ages) ==
    IF missed = {} THEN last' = ages /\ UNCHANGED asked
    ELSE /\ asked' = asked \cup due(missed, ages)
         /\ last' = [s \in missed |-> IF s \in due(missed, ages) THEN 0 ELSE ages[s]]

ServiceTick(e) ==
    /\ Drain(jitter, pos, anchor)
    /\ RequestResends(missing(jitter'), Aged(e))
    /\ UNCHANGED <<senderVars, wire, replies, flushes, anchor, newest>>

HandleFlush ==
    /\ flushes # <<>>
    /\ flushes' = Tail(flushes)
    /\ LET p == Head(flushes)
       IN  /\ jitter' = reset(IF p = None THEN None ELSE SeqOf(p))
           /\ pos' = IF p = None THEN pos ELSE p
    /\ last' = <<>>
    /\ anchor' = None
    /\ out' = <<>>
    /\ UNCHANGED <<senderVars, wire, asked, replies, newest>>

Next ==
    \/ Send
    \/ Lose
    \/ \E s \in asked : Answer(s)
    \/ \E names \in FlushNames : Flush(names)
    \/ \E p \in wire : ReceiveAudio(p)
    \/ \E p \in replies : ReceiveResend(p)
    \/ \E e \in 0..1 : ServiceTick(e)
    \/ HandleFlush

Spec == Init /\ [][Next]_vars

------------------------------------------------------------------------------
Stored == {jitter.slots[i] : i \in 0..(Capacity - 1)} \ {None}

\* Every frame is played at its own position in the stream and at no other:
\* neither wrap-around of the sequence numbers, nor duplicates, late packets,
\* late resend replies or a FLUSH in between put a packet in another's place.
FramesInPlace ==
    /\ \A k \in 1..Len(out) : out[k].frame \in {out[k].pos, None}
    /\ jitter.next_seq # None => jitter.next_seq = SeqOf(pos)
    /\ \A f \in Stored : f \in pos..(pos + Capacity - 1)

\* A gap is given up before the newest packet is MaxLead ahead of it, so a
\* loss never holds playback up for longer (jitter.rs, header and MAX_LEAD),
\* nor does a FLUSH that names a packet.  A FLUSH that names none throws away
\* what was received and starts over from whatever arrives.
ConcealsInTime ==
    (jitter.next_seq # None /\ newest # None /\ (cut = 0 \/ named)) =>
        newest - pos < MaxLead

\* Was a the packet that set the anchor, and does p follow it in the same
\* stretch of the stream?
AnchoredAt(a, p) ==
    /\ anchor = [seq |-> SeqOf(a), ts |-> Ts(a)]
    /\ a < cut <=> p < cut

\* Each packet, played or concealed, gets the timestamp the sender gave it, as
\* long as it is less than half a sequence circle after the packet that set
\* the anchor, whichever that was: the first, or after a FLUSH the first to
\* arrive.
TimestampsNearAnchor ==
    \A k \in 1..Len(out) :
        \A a \in 0..out[k].pos :
            (AnchoredAt(a, out[k].pos) /\ 2 * (out[k].pos - a) < SeqSpace) =>
                out[k].ts = Ts(out[k].pos)

\* Once a FLUSH that names its first packet is handled, no audio from before
\* the FLUSH is played, however late it arrives.
NoStaleAudio ==
    [][(named /\ flushes = <<>>) =>
          \A k \in 1..Len(out') : out'[k].frame = None \/ out'[k].frame >= cut]_vars

------------------------------------------------------------------------------
(* Liveness.  The interval of the service tick fires again and again, and  *)
(* the network lets some of the repeated requests and answers through.     *)
(* The sender owes nothing else: it may stop sending at any time, and the  *)
(* network may lose every packet on the audio socket.                      *)
Fairness ==
    /\ WF_vars(ServiceTick(1))
    /\ \A p \in 0..(MaxPackets - 1) : SF_vars(Answer(SeqOf(p))) /\ SF_vars(ReceiveResend(p))

FairSpec == Spec /\ Fairness

\* A packet that waits behind a gap is played even if no further packet ever
\* comes: the service tick asks for the gap until it is filled.
HeldBackIsPlayed == Stored # {} ~> Stored = {}
=============================================================================
