------------------------------ MODULE MCConnection ------------------------------
(* What a sender sends.  On the connection: a body as long as the limit and *)
(* one that is longer, as many headers as the limit, and each way a message *)
(* is malformed.  And the pure readers of bodies and datagrams, against     *)
(* what was written.                                                        *)
EXTENDS Connection, Datagrams

Form(method, length, challenge, credentials, flaw) ==
    [method |-> method, length |-> length, challenge |-> challenge,
     credentials |-> credentials, flaw |-> flaw]

MCForms ==
    {Form("known", 0, "good", "none", "none"),
     Form("unknown", MaxBody, "bad", "digest", "none"),
     Form("known", MaxBody + 1, "none", "incomplete", "none")}
    \cup {Form("known", 1, "none", "none", flaw) : flaw \in Flaws \ {"none"}}

------------------------------------------------------------------------------
(* Datagrams, with bytes of 16 values. *)

Packet(type, fields) == <<Half, type>> \o fields
Digits4(n) == <<n \div (Base * Base * Base), (n \div (Base * Base)) % Base, (n \div Base) % Base, n % Base>>
Longs == {0, 1, 4660, Base * Base - 1, Base * Base, Base * Base * Base * Base - 1}
Shorts == {0, 1, 17, Base * Base - 1}
Payloads == {<<1>>, <<0, 15>>, <<7, 7, 7>>}
AudioPacket(sequence, timestamp, payload) ==
    Packet(PT_AUDIO, <<sequence \div Base, sequence % Base>> \o Digits4(timestamp)
                     \o Digits4(9) \o payload)
ReplyHeader == Packet(PT_RESEND + Half, <<0, 1>>)

\* AudioPacket::parse reads what was sent, marked or not, and what was sent
\* again behind the header of a resend reply; of a packet that was cut off it
\* reads the numbers right or nothing.
ASSUME AudioIsReadBack ==
    \A sequence \in Shorts, timestamp \in Longs, payload \in Payloads :
        LET packet == AudioPacket(sequence, timestamp, payload)
            read   == [sequence |-> sequence, timestamp |-> timestamp,
                       is_resend |-> FALSE, payload |-> payload]
        IN  /\ parse(packet) = read
            /\ parse([packet EXCEPT ![2] = @ + Half]) = read
            /\ parse(ReplyHeader \o packet) = [read EXCEPT !.is_resend = TRUE]
            /\ \A n \in 0..(Len(packet) - 1) :
                  LET cut == parse(SubSeq(packet, 1, n))
                  IN  IF n <= 12 THEN cut = None ELSE cut.sequence = sequence

\* The other packets: read back, and handed to whom they are for.
ASSUME ControlIsReadBack ==
    \A a, b \in Longs :
        LET sync  == Packet(PT_SYNC + Half, <<0, 7>> \o Digits4(a) \o Digits4(b) \o Digits4(0)
                                            \o Digits4(a))
            reply == Packet(PT_REPLY + Half, <<0, 7>> \o [i \in 1..12 |-> 0] \o Digits4(a)
                                             \o <<Half, 0, 0, 0>>
                                             \o Digits4(b) \o Digits4(0))
        IN  /\ parse_sync(sync, 2)
                 = [rtp_at_dac |-> a, remote_time_ns |-> 2 * b, rtp_current |-> a]
            /\ parse_timing_reply(reply, 2) = [receive_ns |-> 2 * a + 1, transmit_ns |-> 2 * b]
            /\ parse_timing_reply(sync, 2) = None /\ parse_sync(reply, 2) = None
            /\ Destination(sync) = "clock" /\ Destination(reply) = "nobody"
            /\ Destination(ReplyHeader \o reply) = "audio task"
            /\ \A n \in 0..19 : Destination(SubSeq(sync, 1, n)) = "nobody"

\* A sender finds the gap in a resend request, and knows a timing request from
\* the other packets.
ASSUME RequestsAreReadable ==
    /\ \A first, count \in Shorts :
          /\ Short(resend_request(PT_RESEND, first, count), 4) = first
          /\ Short(resend_request(PT_RESEND, first, count), 6) = count
    /\ Len(timing_request) = 32 /\ PayloadType(timing_request) = PT_REQUEST

------------------------------------------------------------------------------
(* Bodies. *)

M == INSTANCE Dmap
A == INSTANCE Announce

\* The entries that walk finds are the body's, one after the other, up to where
\* no complete entry stands; and a body that is cut off loses no earlier entry.
ASSUME WalkFindsTheEntries ==
    \A body \in BoundedSeq(0..3, 6) :
        LET entries == M!walk(body)
            written == FlattenSeq([i \in 1..Len(entries) |->
                                      M!Entry(entries[i].tag, entries[i].payload)])
            rest    == SubSeq(body, Len(written) + 1, Len(body))
        IN  /\ IsPrefix(written, body)
            /\ Len(rest) >= 2 => rest[2] > Len(rest) - 2
            /\ \A n \in 0..Len(body) : IsPrefix(M!walk(SubSeq(body, 1, n)), entries)

\* Fields outside of a container are no statement about the track; and of
\* several containers the last to name a field decides it, the others stay.
ASSUME LaterFieldsDecide ==
    LET bodies == {M!Entry(M!mlit, fields) : fields \in {M!Entry(t, <<v>>) : t \in 2..5, v \in 0..1}
                                                        \cup {<<>>}}
        loose  == {M!Entry(t, <<v>>) : t \in 2..5, v \in 0..1}
    IN  /\ \A x \in loose : M!parse(x) = <<>>
        /\ \A x, y \in bodies : \A f \in M!FieldTags :
              M!parse(x \o y)[1][f] = IF M!parse(y)[1][f] # <<>> THEN M!parse(y)[1][f]
                                                                ELSE M!parse(x)[1][f]
        /\ \A x \in bodies, y \in loose : M!parse(x \o y) = M!parse(x)

Fmtp == [i \in 1..12 |-> 300 + i]
Lines == {[name |-> "fmtp", value |-> Fmtp], [name |-> "fmtp", value |-> [Fmtp EXCEPT ![12] = A!NaN]],
          [name |-> "fmtp", value |-> Tail(Fmtp)], [name |-> "fmtp", value |-> Append(Fmtp, A!NaN)],
          [name |-> "rsaaeskey", value |-> "good"], [name |-> "rsaaeskey", value |-> "wrong length"],
          [name |-> "aesiv", value |-> "good"], [name |-> "aesiv", value |-> "no base64"]}

\* Where in the body a name stands does not matter, only which of its lines is
\* the last; an encrypted stream is one that has both a key and an IV.
ASSUME OrderOfNamesIsFree ==
    \A body \in BoundedSeq(Lines, 4) :
        LET outcome == A!Announced(body)
        IN  /\ \A i \in 1..(Len(body) - 1) :
                  body[i].name # body[i + 1].name =>
                      A!Announced([body EXCEPT ![i] = body[i + 1], ![i + 1] = body[i]]) = outcome
            /\ outcome.status = 200 =>
                  \A name \in {"rsaaeskey", "aesiv"} :
                      outcome.encrypted <=> \E i \in 1..Len(body) : body[i].name = name
=================================================================================
