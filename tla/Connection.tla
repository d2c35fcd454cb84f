------------------------------ MODULE Connection ------------------------------
(***************************************************************************)
(* One RTSP connection after another from one sender: what travels is a    *)
(* stream of lines and body bytes, which the reader (rtsp.rs) cuts into    *)
(* requests, and every request gets one answer (handle_connection and      *)
(* dispatch in server.rs), past the password gate (authenticate in         *)
(* session.rs).  What the methods themselves do is in Sessions.            *)
(*                                                                         *)
(* A line or a byte is one item of the stream.  The sender writes as far   *)
(* ahead of the answers as it likes, and it may hang up, which cuts what   *)
(* it wrote off anywhere, in the middle of a line too.                     *)
(***************************************************************************)
EXTENDS Naturals, Sequences, SequencesExt

CONSTANTS Forms,          \* what the sender sends: [method, length, challenge,
                          \* credentials, flaw]
          MaxHeaders,     \* MAX_HEADERS
          MaxBody,        \* MAX_BODY
          MaxMessages,    \* bound: messages on one connection
          MaxAhead,       \* bound: messages written ahead of their answers
          MaxConnections  \* bound: connections

Flaws == {"none", "line", "header", "headers", "length", "stray"}

ASSUME ConnectionAssumption ==
    /\ Forms \subseteq [method : {"known", "unknown"}, length : Nat,
                        challenge : {"none", "good", "bad"},
                        credentials : {"none", "incomplete", "digest"}, flaw : Flaws]
    /\ \A f \in Forms : f.flaw = "length" => f.length > 0
    /\ MaxHeaders \in Nat /\ MaxBody \in Nat
    /\ MaxMessages \in Nat /\ MaxAhead \in Nat /\ MaxConnections \in Nat

VARIABLES
    protected,   \* is a password configured?
    conn,        \* the number of the connection, and its nonce
    messages,    \* history: what the sender wrote on it
    stream,      \* the items of messages that were not read yet
    hung,        \* did the sender hang up?
    phase,       \* of the handler: "line", "headers", "body", "handle", "closed"
    request,     \* the request, as far as it was read
    authorized,  \* Session::authorized
    nonce,       \* Session::auth_nonce, or 0
    answers      \* what was written back

senderVars == <<protected, conn, messages>>
sessionVars == <<authorized, nonce>>
vars == <<senderVars, stream, hung, phase, request, sessionVars, answers>>

------------------------------------------------------------------------------
(* What travels.  A message states its own number, and the length of its   *)
(* body if it has one.                                                     *)

Garbage == [line |-> "garbage"]
Blank == [line |-> "blank"]
Byte == [line |-> "byte"]
RequestLine(method) == [line |-> "request", method |-> method]
Header(name, value) == [line |-> "header", name |-> name, value |-> value]

When(condition, item) == IF condition THEN <<item>> ELSE <<>>

\* A length that is no number is -1; it takes one that is stated.
Headers(m) ==
    When(m.length > 0, Header("Content-Length", IF m.flaw = "length" THEN -1 ELSE m.length))
    \o When(m.auth # <<>>, Header("Authorization", m.auth))
    \o When(m.challenge # "none", Header("Apple-Challenge", m.challenge))
    \o <<Header("CSeq", m.cseq)>>
    \o (IF m.flaw = "headers" THEN [i \in 1..MaxHeaders |-> Header("Other", i)] ELSE <<>>)

Encoded(m) ==
    When(m.flaw = "stray", Blank)
    \o <<IF m.flaw = "line" THEN Garbage ELSE RequestLine(m.method)>>
    \o Headers(m)
    \o When(m.flaw = "header", Garbage)
    \o <<Blank>> \o [i \in 1..m.length |-> Byte]

------------------------------------------------------------------------------
(* The digest (crypto.rs), as a function no two arguments of which agree.  *)
(* Its user name, realm and URI are the sender's own.                      *)

Passwords == {"right", "wrong"}

digest_response(password, method, n) == <<password, method, n>>

\* The nonces a sender can have: none, those of its earlier connections, and
\* that of this one once it was told.
Known == 0..(conn - 1) \cup {answers[i].nonce : i \in 1..Len(answers)}

\* The Authorization: none, one that is not a complete Digest, or a digest.
Authorizations(form) ==
    CASE form.credentials = "none"       -> {<<>>}
      [] form.credentials = "incomplete" -> {<<"incomplete">>}
      [] form.credentials = "digest"     ->
            {digest_response(p, form.method, n) : p \in Passwords, n \in Known}

------------------------------------------------------------------------------
Idle == [method |-> "none", headers |-> <<>>, body |-> 0]

Init ==
    /\ protected \in BOOLEAN
    /\ conn = 1
    /\ messages = <<>> /\ stream = <<>> /\ hung = FALSE
    /\ phase = "line" /\ request = Idle
    /\ authorized = FALSE /\ nonce = 0
    /\ answers = <<>>

(* The sender and the network. *)

Send ==
    /\ ~ hung /\ Len(messages) < MaxMessages
    /\ Len(messages) < Len(answers) + MaxAhead
    /\ \E f \in Forms : \E a \in Authorizations(f) :
          LET m == [method |-> f.method, length |-> f.length, challenge |-> f.challenge,
                    flaw |-> f.flaw, auth |-> a, cseq |-> Len(messages) + 1]
          IN  /\ messages' = Append(messages, m)
              /\ stream' = stream \o Encoded(m)
    /\ UNCHANGED <<protected, conn, hung, phase, request, sessionVars, answers>>

\* The first n items arrive, and a piece of the next at most, which of a line
\* is one that cannot be read.  (A line that lacks only its end is taken for
\* whole, an empty one with its "\r" too: that is the line itself.)
HangUp ==
    /\ ~ hung /\ hung' = TRUE
    /\ \E n \in 0..Len(stream) :
          \/ stream' = SubSeq(stream, 1, n)
          \/ /\ n < Len(stream) /\ stream[n + 1] # Byte
             /\ stream' = Append(SubSeq(stream, 1, n), Garbage)
    /\ UNCHANGED <<senderVars, phase, request, sessionVars, answers>>

\* The next connection; the session of the last one was dropped.
Reconnect ==
    /\ phase = "closed" /\ conn < MaxConnections
    /\ conn' = conn + 1
    /\ messages' = <<>> /\ stream' = <<>> /\ hung' = FALSE
    /\ phase' = "line" /\ request' = Idle
    /\ authorized' = FALSE /\ nonce' = 0
    /\ answers' = <<>>
    /\ UNCHANGED protected

------------------------------------------------------------------------------
(* read_request: each read takes the next item as it arrives, or meets the *)
(* end.                                                                    *)

Close == phase' = "closed" /\ UNCHANGED request

Take ==
    /\ stream # <<>>
    /\ stream' = Tail(stream)
    /\ UNCHANGED <<senderVars, hung, sessionVars, answers>>

AtEnd ==
    /\ stream = <<>> /\ hung
    /\ UNCHANGED <<senderVars, stream, hung, sessionVars, answers>>

\* The end here is a clean one, and so is an empty line.
ReadRequestLine ==
    /\ phase = "line"
    /\ \/ AtEnd /\ Close
       \/ /\ Take
          /\ IF Head(stream).line = "request"
             THEN phase' = "headers" /\ request' = [Idle EXCEPT !.method = Head(stream).method]
             ELSE Close

\* Headers::get: the first of that name, or <<>>.
get(headers, name) ==
    LET test(h) == h.name = name
        i == SelectInSeq(headers, test)
    IN  IF i = 0 THEN <<>> ELSE <<headers[i].value>>

\* Mutant: a body of the greatest length is too large.
TooLargeAtLimit(length) == length >= MaxBody

TooLarge(length) == length > MaxBody

BodyLength(headers) ==
    LET length == get(headers, "Content-Length") IN IF length = <<>> THEN 0 ELSE length[1]

\* The empty line: what Content-Length says decides.
HeadersEnd ==
    LET length == BodyLength(request.headers)
    IN  IF length = -1 \/ TooLarge(length) THEN Close
        ELSE phase' = (IF length = 0 THEN "handle" ELSE "body") /\ UNCHANGED request

ReadHeader ==
    /\ phase = "headers"
    /\ \/ AtEnd /\ Close
       \/ /\ Take
          /\ CASE Head(stream) = Blank -> HeadersEnd
               [] Head(stream).line = "header" /\ Len(request.headers) < MaxHeaders ->
                    /\ request' = [request EXCEPT !.headers = Append(@, Head(stream))]
                    /\ UNCHANGED phase
               [] OTHER -> Close

\* Mutant: what has arrived is enough (read for read_exact).
BodyBegun(body) == body > 0

\* read_exact
BodyComplete(body) == body = BodyLength(request.headers)

ReadBody ==
    /\ phase = "body"
    /\ \/ AtEnd /\ Close
       \/ /\ Take
          /\ request' = [request EXCEPT !.body = @ + 1]
          /\ phase' = IF BodyComplete(request.body + 1) THEN "handle" ELSE "body"

------------------------------------------------------------------------------
(* dispatch and handle_connection. *)

\* authenticate: does the gate let the request pass?
Passes ==
    \/ authorized \/ ~ protected
    \/ get(request.headers, "Authorization")
          = <<digest_response("right", request.method, nonce)>>

\* Mutant: every challenge makes a nonce.
Renewed == conn + MaxConnections * Len(answers)

\* auth_challenge: made for the first challenge, from then on the connection's.
Challenged == IF nonce = 0 THEN conn ELSE nonce

\* Mutant: a refusal is sent as it is.
Bare(denied, value) == IF denied THEN <<>> ELSE value

\* Every answer has the common headers, a refusal too.
Common(denied, value) == value

\* apple_response signs a challenge that is valid base64 and short enough.
Signature(challenge) == IF challenge = <<"good">> THEN challenge ELSE <<>>

Response ==
    [status |-> IF ~ Passes THEN "401" ELSE IF request.method = "known" THEN "handled" ELSE "501",
     nonce  |-> IF Passes THEN 0 ELSE Challenged,
     cseq   |-> Common(~ Passes, get(request.headers, "CSeq")),
     signed |-> Common(~ Passes, Signature(get(request.headers, "Apple-Challenge")))]

\* The answer is written, unless the sender is gone.
Handle ==
    /\ phase = "handle"
    /\ authorized' = Passes
    /\ nonce' = IF Passes THEN nonce ELSE Challenged
    /\ request' = Idle
    /\ \/ phase' = "line" /\ answers' = Append(answers, Response)
       \/ hung /\ phase' = "closed" /\ UNCHANGED answers
    /\ UNCHANGED <<senderVars, stream, hung>>

Server == ReadRequestLine \/ ReadHeader \/ ReadBody \/ Handle

Next == Send \/ HangUp \/ Reconnect \/ Server

\* The network delivers what was written and the handler runs; a sender need
\* not send, hang up, or come back.
Fairness == WF_vars(Server)

Spec == Init /\ [][Next]_vars /\ Fairness

------------------------------------------------------------------------------
WellFormed(m) == m.flaw = "none" /\ m.length <= MaxBody /\ Len(Headers(m)) <= MaxHeaders

\* What the handler is given is the next message that was not answered, all of
\* it and nothing else, however it was cut up on the way, written ahead, or
\* broken off; and nothing is handled from a message on that is malformed or
\* too large.
WholeMessages ==
    phase = "handle" =>
        LET n == Len(answers) + 1
        IN  /\ n <= Len(messages)
            /\ \A i \in 1..n : WellFormed(messages[i])
            /\ request = [method |-> messages[n].method, headers |-> Headers(messages[n]),
                          body |-> messages[n].length]

\* "responses echo the request's CSeq", and "on a 401 the common headers still
\* apply, and the Apple-Challenge is still answered": the answers are those of
\* the messages in their order, whatever came of them.
AnswersMatch ==
    \A i \in 1..Len(answers) :
        /\ answers[i].cseq = <<messages[i].cseq>>
        /\ answers[i].signed = IF messages[i].challenge = "good" THEN <<"good">> ELSE <<>>

\* Does the i-th message answer the challenge of its connection?  Before there
\* was one that is the digest over no nonce.
Proves(i) ==
    messages[i].auth =
        digest_response("right", messages[i].method,
                        IF \E j \in 1..(i - 1) : answers[j].status = "401" THEN conn ELSE 0)

\* A protected receiver refuses every message up to the first that answers the
\* challenge of this very connection with the password, by whichever of its
\* refusals the sender learned it, and none from there on; one without a
\* password refuses none.
DeniedUntilProven ==
    \A i \in 1..Len(answers) :
        (answers[i].status = "401") <=> (protected /\ ~ \E j \in 1..i : Proves(j))

\* A well-formed message after well-formed ones is answered, whatever is
\* written after it, unless the sender hangs up.
Answered ==
    \A n \in 1..MaxMessages :
        (Len(messages) >= n /\ \A i \in 1..n : WellFormed(messages[i]))
            ~> (Len(answers) >= n \/ hung)
=============================================================================
