------------------------------- MODULE Datagrams -------------------------------
(***************************************************************************)
(* The UDP packets of a stream (rtp.rs): sequences of digits, bytes with   *)
(* Base = 256, in which fields stand at fixed offsets with their highest   *)
(* digit first.  What AES does to the blocks of a payload is left out:     *)
(* decrypt_audio is which part of it is decrypted.                         *)
(***************************************************************************)
EXTENDS Naturals, Sequences

CONSTANTS Base,      \* values of a byte, 256; the marker bit is the upper half
          PT_AUDIO, PT_RESEND, PT_SYNC, PT_REPLY, PT_REQUEST,
          None       \* what a datagram is that is no such packet

Half == Base \div 2

Types == {PT_AUDIO, PT_RESEND, PT_SYNC, PT_REPLY, PT_REQUEST}

ASSUME DatagramsAssumption ==
    /\ Base \in Nat /\ Half > 0
    /\ Types \subseteq 0..(Half - 1)

Digits == 0..(Base - 1)

\* The digit at an offset; u16 and u32 from_be_bytes.
At(datagram, offset) == datagram[offset + 1]
Short(datagram, offset) == At(datagram, offset) * Base + At(datagram, offset + 1)
Long(datagram, offset) == Short(datagram, offset) * (Base * Base) + Short(datagram, offset + 2)

\* The payload type, without the marker bit.
PayloadType(datagram) == At(datagram, 1) % Half

From(datagram, offset) == SubSeq(datagram, offset + 1, Len(datagram))

------------------------------------------------------------------------------
(* AudioPacket::parse. *)

\* A resend reply has the packet behind four bytes of its own, and the type of
\* what is inside is not looked at.
Wrapped(datagram) == PayloadType(datagram) = PT_RESEND

Frame(datagram) == IF Wrapped(datagram) THEN From(datagram, 4) ELSE datagram

\* Long enough for a header and a payload.
IsAudio(datagram) ==
    /\ Len(datagram) >= 12
    /\ PayloadType(datagram) \in {PT_AUDIO, PT_RESEND}
    /\ Len(Frame(datagram)) > 12

parse(datagram) ==
    IF IsAudio(datagram)
    THEN [sequence  |-> Short(Frame(datagram), 2),
          timestamp |-> Long(Frame(datagram), 4),
          is_resend |-> Wrapped(datagram),
          payload   |-> From(Frame(datagram), 12)]
    ELSE None

\* decrypt_audio: how many bytes of a payload are decrypted, in blocks of 16;
\* the rest is sent in the clear.
block_len(length) == length - (length % 16)

------------------------------------------------------------------------------
(* The control and timing channels. *)

\* ntp_to_ns: seconds and a fraction of Base^4 parts, with `unit` nanoseconds
\* in a second.
ntp_to_ns(unit, seconds, fraction) ==
    seconds * unit + (fraction * unit) \div (Base * Base * Base * Base)

ntp(datagram, offset, unit) ==
    ntp_to_ns(unit, Long(datagram, offset), Long(datagram, offset + 4))

IsSync(datagram) == Len(datagram) >= 20 /\ PayloadType(datagram) = PT_SYNC

parse_sync(datagram, unit) ==
    IF IsSync(datagram)
    THEN [rtp_at_dac     |-> Long(datagram, 4),
          remote_time_ns |-> ntp(datagram, 8, unit),
          rtp_current    |-> Long(datagram, 16)]
    ELSE None

IsTimingReply(datagram) == Len(datagram) >= 32 /\ PayloadType(datagram) = PT_REPLY

parse_timing_reply(datagram, unit) ==
    IF IsTimingReply(datagram)
    THEN [receive_ns |-> ntp(datagram, 16, unit), transmit_ns |-> ntp(datagram, 24, unit)]
    ELSE None

\* control_receiver: whom a datagram on the control channel is for.
Destination(datagram) ==
    CASE Len(datagram) < 2                    -> "nobody"
      [] PayloadType(datagram) = PT_RESEND -> "audio task"
      [] IsSync(datagram)                  -> "clock"
      [] OTHER                             -> "nobody"

\* resend_request and timing_request: marked, with fixed sequence numbers.
resend_request(request, first, count) ==
    <<Half, request + Half, 0, 1, first \div Base, first % Base, count \div Base, count % Base>>

timing_request == <<Half, PT_REQUEST + Half, 0, 7>> \o [i \in 1..28 |-> 0]
=============================================================================
