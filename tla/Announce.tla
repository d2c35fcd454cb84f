-------------------------------- MODULE Announce --------------------------------
(***************************************************************************)
(* What an ANNOUNCE settles (sdp.rs, handle_announce and decrypt_stream_   *)
(* key in session.rs): whether the stream can be played and decrypted.  A  *)
(* body is a sequence of attribute lines [name, value]; other lines are    *)
(* skipped and left out.  A value is a kind of text, for fmtp the sequence *)
(* of its numbers, in which NaN is a token that is no number.              *)
(***************************************************************************)
EXTENDS Integers, Sequences, SequencesExt

NaN == -1

\* Sdp::parse: the last line of a name is its value; <<>> if there is none.
Attribute(body, name) ==
    LET lines == SelectSeq(body, LAMBDA line : line.name = name)
    IN  IF lines = <<>> THEN <<>> ELSE <<Last(lines).value>>

\* AlacConfig::parse: at least twelve tokens, of which the first twelve are
\* numbers; what follows is not looked at, and two of them are cut to bytes.
UsableFmtp(tokens) == Len(tokens) >= 12 /\ \A i \in 1..12 : tokens[i] # NaN

AlacConfig(tokens) ==
    [frames_per_packet |-> tokens[2], bit_depth |-> tokens[4] % 256,
     channels |-> tokens[8] % 256, sample_rate |-> tokens[12]]

\* decrypt_stream_key: the IV first, then the key, which RSA must decrypt to
\* one of 16 bytes.  A value is "good", or what is wrong with it.
StreamKey(rsaaeskey, aesiv) == aesiv = "good" /\ rsaaeskey = "good"

\* handle_announce: what was announced, or the refusal, which leaves what an
\* earlier ANNOUNCE settled.
Announced(body) ==
    LET fmtp == Attribute(body, "fmtp")
        key  == Attribute(body, "rsaaeskey")
        iv   == Attribute(body, "aesiv")
    IN  IF fmtp = <<>> \/ (fmtp # <<>> /\ ~ UsableFmtp(fmtp[1])) THEN [status |-> 400]
        ELSE IF key = <<>> /\ iv = <<>>
        THEN [status |-> 200, encrypted |-> FALSE, alac |-> AlacConfig(fmtp[1])]
        ELSE IF key # <<>> /\ iv # <<>> /\ StreamKey(key[1], iv[1])
        THEN [status |-> 200, encrypted |-> TRUE, alac |-> AlacConfig(fmtp[1])]
        ELSE [status |-> 456]
=============================================================================
