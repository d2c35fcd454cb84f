--------------------------- MODULE ConnectionProofs ---------------------------
(***************************************************************************)
(* What the handlers are given and what they answer, for messages of any   *)
(* kind and number, however they are cut up, written ahead or broken off.  *)
(*                                                                         *)
(* The heart of it is Framed: there is a place where each message that was *)
(* not answered begins in what is left of the stream, and its items stand  *)
(* from there on, up to where the sender hung up.  The reader, which knows *)
(* none of these places, has read as many items of the first of them as    *)
(* its request says (Position), and they were the right ones (Begun).  A   *)
(* message that does not say truly where it ends closes the connection     *)
(* before the next is looked at.                                           *)
(*                                                                         *)
(* From there the gate is short: the session's nonce and its verdict are   *)
(* what the answers so far say (Gate).                                     *)
(***************************************************************************)
EXTENDS Connection, SequenceTheorems, TLAPS

------------------------------------------------------------------------------
(* Sequences. *)

LEMMA FunctionIsSeq ==
    ASSUME NEW S, NEW n \in Nat, NEW f \in [1..n -> S]
    PROVE  f \in Seq(S) /\ Len(f) = n
  <1>1. f \in Seq(S)
    BY SeqDef
  <1>2. DOMAIN f = 1..n /\ DOMAIN f = 1..Len(f) /\ Len(f) \in Nat
    BY <1>1, LenProperties
  <1> QED BY <1>2

LEMMA SingleIsSeq ==
    ASSUME NEW S, NEW e \in S
    PROVE  <<e>> \in Seq(S) /\ Len(<<e>>) = 1 /\ <<e>>[1] = e
  OBVIOUS

LEMMA ConcatParts ==
    ASSUME NEW S, NEW s \in Seq(S), NEW t \in Seq(S)
    PROVE  /\ s \o t \in Seq(S) /\ Len(s \o t) = Len(s) + Len(t)
           /\ Len(s) \in Nat /\ Len(t) \in Nat
           /\ \A i \in 1..Len(s) : (s \o t)[i] = s[i]
           /\ \A i \in 1..Len(t) : (s \o t)[Len(s) + i] = t[i]
  <1>1. Len(s) \in Nat /\ Len(t) \in Nat
    BY LenProperties
  <1> QED BY <1>1, ConcatProperties

------------------------------------------------------------------------------
(* What travels, as sets. *)

Methods == {"known", "unknown"}
Auths == {<<>>, <<"incomplete">>}
         \cup {digest_response(p, x, n) : p \in Passwords, x \in Methods, n \in Nat}

\* A message as Send writes it.
Messages ==
    {m \in [method : Methods, length : Nat, challenge : {"none", "good", "bad"},
            flaw : Flaws, auth : Auths, cseq : Nat] :
        m.flaw = "length" => m.length > 0}

Names == {"Content-Length", "Authorization", "Apple-Challenge", "CSeq", "Other"}
HeaderValues == Int \cup Auths \cup {"good", "bad"}
HeaderItems == {Header(name, value) : name \in Names, value \in HeaderValues}
Items == {Garbage, Blank, Byte} \cup {RequestLine(x) : x \in Methods} \cup HeaderItems

LEMMA HeaderFields ==
    ASSUME NEW name \in Names, NEW value \in HeaderValues
    PROVE  /\ Header(name, value) \in HeaderItems
           /\ Header(name, value).name = name /\ Header(name, value).value = value
  BY DEF Header, HeaderItems

\* What the reader tells the items apart by.
LEMMA ItemKinds ==
    /\ \A h \in HeaderItems : h.line = "header" /\ h # Blank /\ h \in Items
    /\ \A x \in Methods : RequestLine(x).line = "request" /\ RequestLine(x).method = x
    /\ Garbage.line = "garbage" /\ Garbage # Blank /\ Garbage \in Items
    /\ Blank.line = "blank" /\ Blank \in Items /\ Byte \in Items
  <1>1. \A h \in HeaderItems : h.line = "header"
    BY DEF HeaderItems, Header
  <1>2. Blank.line = "blank" /\ Garbage.line = "garbage"
    BY DEF Blank, Garbage
  <1>3. \A x \in Methods : RequestLine(x).line = "request" /\ RequestLine(x).method = x
    BY DEF RequestLine
  <1>4. Garbage \in Items /\ Blank \in Items /\ Byte \in Items /\ HeaderItems \subseteq Items
    BY DEF Items
  <1>5. "header" # "blank" /\ "garbage" # "blank"
    OBVIOUS
  <1> QED BY <1>1, <1>2, <1>3, <1>4, <1>5

------------------------------------------------------------------------------
(* get finds the first header of a name: which one that is, in a sequence  *)
(* put together from others.                                               *)

Absent(s, name) == \A j \in 1..Len(s) : s[j].name # name

FirstIs(s, name, value) ==
    \E i \in 1..Len(s) : /\ s[i].name = name /\ s[i].value = value
                         /\ \A j \in 1..(i - 1) : s[j].name # name

LEMMA GetAbsent ==
    ASSUME NEW s, NEW name, Absent(s, name)
    PROVE  get(s, name) = <<>>
  BY DEF get, SelectInSeq, Absent

LEMMA GetFirst ==
    ASSUME NEW s \in Seq(HeaderItems), NEW name, NEW value, FirstIs(s, name, value)
    PROVE  get(s, name) = <<value>>
  <1> DEFINE I == {j \in 1..Len(s) : s[j].name = name}
  <1>1. Len(s) \in Nat
    BY LenProperties
  <1>2. PICK i \in 1..Len(s) : /\ s[i].name = name /\ s[i].value = value
                               /\ \A j \in 1..(i - 1) : s[j].name # name
    BY DEF FirstIs
  <1>3. i \in I /\ \A j \in I : i <= j
    BY <1>1, <1>2
  <1>4. Min(I) = i
    BY <1>1, <1>3 DEF Min
  <1>5. I # {} /\ i # 0 /\ s[i].value = value
    BY <1>1, <1>2, <1>3
  <1> QED BY <1>4, <1>5, Zenon DEF get, SelectInSeq

LEMMA ConcatAbsent ==
    ASSUME NEW s \in Seq(HeaderItems), NEW t \in Seq(HeaderItems), NEW name,
           Absent(s, name), Absent(t, name)
    PROVE  Absent(s \o t, name)
  <1>1. Len(s) \in Nat /\ Len(t) \in Nat
    BY LenProperties
  <1> QED BY <1>1, ConcatProperties DEF Absent

LEMMA ConcatLeft ==
    ASSUME NEW s \in Seq(HeaderItems), NEW t \in Seq(HeaderItems), NEW name, NEW value,
           FirstIs(s, name, value)
    PROVE  FirstIs(s \o t, name, value)
  <1>1. Len(s) \in Nat /\ Len(t) \in Nat
    BY LenProperties
  <1>2. PICK i \in 1..Len(s) : /\ s[i].name = name /\ s[i].value = value
                               /\ \A j \in 1..(i - 1) : s[j].name # name
    BY DEF FirstIs
  <1>3. i \in 1..Len(s \o t) /\ \A j \in 1..i : (s \o t)[j] = s[j]
    BY <1>1, ConcatProperties
  <1> QED BY <1>1, <1>2, <1>3 DEF FirstIs

LEMMA ConcatRight ==
    ASSUME NEW s \in Seq(HeaderItems), NEW t \in Seq(HeaderItems), NEW name, NEW value,
           Absent(s, name), FirstIs(t, name, value)
    PROVE  FirstIs(s \o t, name, value)
  <1>1. Len(s) \in Nat /\ Len(t) \in Nat
    BY LenProperties
  <1>2. PICK i \in 1..Len(t) : /\ t[i].name = name /\ t[i].value = value
                               /\ \A j \in 1..(i - 1) : t[j].name # name
    BY DEF FirstIs
  <1> DEFINE k == Len(s) + i
  <1>3. k \in 1..Len(s \o t) /\ (s \o t)[k] = t[i]
    BY <1>1, ConcatProperties
  <1>4. ASSUME NEW j \in 1..(k - 1) PROVE (s \o t)[j].name # name
    <2>1. CASE j <= Len(s)
      BY <1>1, <2>1, ConcatProperties DEF Absent
    <2>2. CASE j > Len(s)
      <3>1. (s \o t)[j] = t[j - Len(s)] /\ j - Len(s) \in 1..(i - 1)
        BY <1>1, <2>2, ConcatProperties
      <3> QED BY <1>2, <3>1
    <2> QED BY <1>1, <2>1, <2>2
  <1> HIDE DEF k
  <1> QED BY <1>2, <1>3, <1>4 DEF FirstIs

LEMMA WhenHeader ==
    ASSUME NEW condition \in BOOLEAN, NEW name \in Names, NEW value \in HeaderValues
    PROVE  /\ When(condition, Header(name, value)) \in Seq(HeaderItems)
           /\ condition => FirstIs(When(condition, Header(name, value)), name, value)
           /\ ~ condition => Absent(When(condition, Header(name, value)), name)
           /\ \A other : other # name => Absent(When(condition, Header(name, value)), other)
  <1> DEFINE h == Header(name, value)
  <1>1. h \in HeaderItems /\ h.name = name /\ h.value = value
    BY HeaderFields
  <1> HIDE DEF h
  <1>2. <<h>> \in Seq(HeaderItems) /\ Len(<<h>>) = 1 /\ <<h>>[1] = h /\ <<>> \in Seq(HeaderItems)
        /\ Len(<<>>) = 0
    BY <1>1
  <1>3. CASE condition
    <2>1. When(condition, h) = <<h>>
      BY <1>3 DEF When
    <2>2. FirstIs(<<h>>, name, value)
      BY <1>1, <1>2 DEF FirstIs
    <2>3. \A other : other # name => Absent(<<h>>, other)
      BY <1>1, <1>2 DEF Absent
    <2> QED BY <1>2, <1>3, <2>1, <2>2, <2>3 DEF h
  <1>4. CASE ~ condition
    <2>1. When(condition, h) = <<>>
      BY <1>4 DEF When
    <2>2. \A other : Absent(<<>>, other)
      BY <1>2 DEF Absent
    <2> QED BY <1>2, <1>4, <2>1, <2>2 DEF h
  <1> QED BY <1>3, <1>4
------------------------------------------------------------------------------
(* The headers of a message, and what get finds in them. *)

\* What the length is stated as.
Stated(m) == IF m.flaw = "length" THEN -1 ELSE m.length

LEMMA HeadersOf ==
    ASSUME NEW m \in Messages
    PROVE  /\ Headers(m) \in Seq(HeaderItems) /\ Len(Headers(m)) \in Nat
           /\ m.flaw = "headers" => Len(Headers(m)) > MaxHeaders
           /\ get(Headers(m), "Content-Length") = IF m.length > 0 THEN <<Stated(m)>> ELSE <<>>
           /\ get(Headers(m), "Authorization") = IF m.auth # <<>> THEN <<m.auth>> ELSE <<>>
           /\ get(Headers(m), "Apple-Challenge")
                 = IF m.challenge # "none" THEN <<m.challenge>> ELSE <<>>
           /\ get(Headers(m), "CSeq") = <<m.cseq>>
  <1> DEFINE a == When(m.length > 0, Header("Content-Length", Stated(m)))
             b == When(m.auth # <<>>, Header("Authorization", m.auth))
             c == When(m.challenge # "none", Header("Apple-Challenge", m.challenge))
             d == <<Header("CSeq", m.cseq)>>
             e == IF m.flaw = "headers" THEN [i \in 1..MaxHeaders |-> Header("Other", i)]
                                        ELSE <<>>
  <1>1. Headers(m) = (((a \o b) \o c) \o d) \o e
    BY DEF Headers, Stated
  <1>2. /\ m.length \in Nat /\ m.auth \in Auths /\ m.cseq \in Nat
        /\ m.challenge \in {"none", "good", "bad"}
    BY DEF Messages
  <1>3. /\ Stated(m) \in HeaderValues /\ m.auth \in HeaderValues /\ m.cseq \in HeaderValues
    BY <1>2 DEF Stated, HeaderValues
  <1>4. {"Content-Length", "Authorization", "Apple-Challenge", "CSeq", "Other"} \subseteq Names
    BY DEF Names
  <1>5. /\ a \in Seq(HeaderItems)
        /\ m.length > 0 => FirstIs(a, "Content-Length", Stated(m))
        /\ ~ (m.length > 0) => Absent(a, "Content-Length")
        /\ \A other : other # "Content-Length" => Absent(a, other)
    <2>1. (m.length > 0) \in BOOLEAN /\ "Content-Length" \in Names
      BY <1>4
    <2> QED BY <1>3, <2>1, WhenHeader
  <1>6. /\ b \in Seq(HeaderItems)
        /\ m.auth # <<>> => FirstIs(b, "Authorization", m.auth)
        /\ ~ (m.auth # <<>>) => Absent(b, "Authorization")
        /\ \A other : other # "Authorization" => Absent(b, other)
    BY <1>3, <1>4, WhenHeader
  <1>7. /\ c \in Seq(HeaderItems)
        /\ m.challenge # "none" => FirstIs(c, "Apple-Challenge", m.challenge)
        /\ ~ (m.challenge # "none") => Absent(c, "Apple-Challenge")
        /\ \A other : other # "Apple-Challenge" => Absent(c, other)
    <2>1. CASE m.challenge = "none"
      <3>1. c = <<>>
        BY <2>1 DEF When
      <3>2. \A other : Absent(<<>>, other)
        BY DEF Absent
      <3>3. <<>> \in Seq(HeaderItems)
        OBVIOUS
      <3> QED BY <2>1, <3>1, <3>2, <3>3
    <2>2. CASE m.challenge # "none"
      <3>1. m.challenge \in HeaderValues
        BY <1>2, <2>2 DEF HeaderValues
      <3> QED BY <1>4, <2>2, <3>1, WhenHeader
    <2> QED BY <2>1, <2>2
  <1>8. /\ d \in Seq(HeaderItems) /\ Len(d) = 1
        /\ FirstIs(d, "CSeq", m.cseq)
        /\ \A other : other # "CSeq" => Absent(d, other)
    <2>1. d = When(TRUE, Header("CSeq", m.cseq))
      BY DEF When
    <2>2. Len(d) = 1
      OBVIOUS
    <2> HIDE DEF d
    <2> QED BY <1>3, <1>4, <2>1, <2>2, WhenHeader
  <1>9. /\ e \in Seq(HeaderItems)
        /\ m.flaw = "headers" => Len(e) = MaxHeaders
        /\ \A other : other # "Other" => Absent(e, other)
    <2>1. CASE m.flaw = "headers"
      <3> DEFINE f == [i \in 1..MaxHeaders |-> Header("Other", i)]
      <3>1. \A i \in 1..MaxHeaders : /\ Header("Other", i) \in HeaderItems
                                     /\ Header("Other", i).name = "Other"
        BY <1>4, HeaderFields DEF HeaderValues
      <3>2. f \in [1..MaxHeaders -> HeaderItems]
        BY <3>1
      <3>3. f \in Seq(HeaderItems) /\ Len(f) = MaxHeaders
        BY <3>2, FunctionIsSeq, ConnectionAssumption
      <3>4. \A other : other # "Other" => Absent(f, other)
        BY <3>1, <3>3 DEF Absent
      <3>5. e = f
        BY <2>1
      <3> HIDE DEF e, f
      <3> QED BY <3>3, <3>4, <3>5
    <2>2. CASE m.flaw # "headers"
      <3>1. e = <<>>
        BY <2>2
      <3>2. \A other : Absent(<<>>, other)
        BY DEF Absent
      <3> HIDE DEF e
      <3> QED BY <2>2, <3>1, <3>2
    <2> QED BY <2>1, <2>2
  <1> HIDE DEF a, b, c, d, e
  <1>10. /\ a \o b \in Seq(HeaderItems) /\ (a \o b) \o c \in Seq(HeaderItems)
         /\ ((a \o b) \o c) \o d \in Seq(HeaderItems)
         /\ (((a \o b) \o c) \o d) \o e \in Seq(HeaderItems)
    BY <1>5, <1>6, <1>7, <1>8, <1>9, ConcatProperties
  <1>11. /\ Len(((a \o b) \o c) \o d) = Len((a \o b) \o c) + 1
         /\ Len(Headers(m)) = Len(((a \o b) \o c) \o d) + Len(e)
         /\ Len((a \o b) \o c) \in Nat /\ Len(e) \in Nat
    <2>1. Len(((a \o b) \o c) \o d) = Len((a \o b) \o c) + 1 /\ Len((a \o b) \o c) \in Nat
      <3>1. /\ Len(((a \o b) \o c) \o d) = Len((a \o b) \o c) + Len(d)
            /\ Len((a \o b) \o c) \in Nat
        BY <1>8, <1>10, ConcatParts
      <3> QED BY <1>8, <3>1
    <2>2. Len(Headers(m)) = Len(((a \o b) \o c) \o d) + Len(e) /\ Len(e) \in Nat
      BY <1>1, <1>9, <1>10, ConcatParts
    <2> QED BY <2>1, <2>2
  <1>12. get(Headers(m), "Content-Length") = IF m.length > 0 THEN <<Stated(m)>> ELSE <<>>
    <2>1. /\ Absent(b, "Content-Length") /\ Absent(c, "Content-Length")
          /\ Absent(d, "Content-Length") /\ Absent(e, "Content-Length")
      BY <1>6, <1>7, <1>8, <1>9
    <2>2. CASE m.length > 0
      <3>1. FirstIs(a \o b, "Content-Length", Stated(m))
        BY <2>2, <1>5, <1>6, ConcatLeft
      <3>2. FirstIs((a \o b) \o c, "Content-Length", Stated(m))
        BY <3>1, <1>7, <1>10, ConcatLeft
      <3>3. FirstIs(((a \o b) \o c) \o d, "Content-Length", Stated(m))
        BY <3>2, <1>8, <1>10, ConcatLeft
      <3>4. FirstIs(Headers(m), "Content-Length", Stated(m))
        BY <3>3, <1>1, <1>9, <1>10, ConcatLeft
      <3> QED BY <2>2, <3>4, <1>1, <1>10, GetFirst
    <2>3. CASE ~ (m.length > 0)
      <3>1. Absent(a \o b, "Content-Length")
        BY <2>1, <2>3, <1>5, <1>6, ConcatAbsent
      <3>2. Absent((a \o b) \o c, "Content-Length")
        BY <2>1, <3>1, <1>7, <1>10, ConcatAbsent
      <3>3. Absent(((a \o b) \o c) \o d, "Content-Length")
        BY <2>1, <3>2, <1>8, <1>10, ConcatAbsent
      <3>4. Absent(Headers(m), "Content-Length")
        BY <2>1, <3>3, <1>1, <1>9, <1>10, ConcatAbsent
      <3> QED BY <2>3, <3>4, GetAbsent
    <2> QED BY <2>2, <2>3
  <1>13. get(Headers(m), "Authorization") = IF m.auth # <<>> THEN <<m.auth>> ELSE <<>>
    <2>1. /\ Absent(a, "Authorization") /\ Absent(c, "Authorization")
          /\ Absent(d, "Authorization") /\ Absent(e, "Authorization")
      BY <1>5, <1>7, <1>8, <1>9
    <2>2. CASE m.auth # <<>>
      <3>1. FirstIs(a \o b, "Authorization", m.auth)
        BY <2>1, <2>2, <1>5, <1>6, ConcatRight
      <3>2. FirstIs((a \o b) \o c, "Authorization", m.auth)
        BY <3>1, <1>7, <1>10, ConcatLeft
      <3>3. FirstIs(((a \o b) \o c) \o d, "Authorization", m.auth)
        BY <3>2, <1>8, <1>10, ConcatLeft
      <3>4. FirstIs(Headers(m), "Authorization", m.auth)
        BY <3>3, <1>1, <1>9, <1>10, ConcatLeft
      <3> QED BY <2>2, <3>4, <1>1, <1>10, GetFirst
    <2>3. CASE ~ (m.auth # <<>>)
      <3>1. Absent(a \o b, "Authorization")
        BY <2>1, <2>3, <1>5, <1>6, ConcatAbsent
      <3>2. Absent((a \o b) \o c, "Authorization")
        BY <2>1, <3>1, <1>7, <1>10, ConcatAbsent
      <3>3. Absent(((a \o b) \o c) \o d, "Authorization")
        BY <2>1, <3>2, <1>8, <1>10, ConcatAbsent
      <3>4. Absent(Headers(m), "Authorization")
        BY <2>1, <3>3, <1>1, <1>9, <1>10, ConcatAbsent
      <3> QED BY <2>3, <3>4, GetAbsent
    <2> QED BY <2>2, <2>3
  <1>14. get(Headers(m), "Apple-Challenge")
             = IF m.challenge # "none" THEN <<m.challenge>> ELSE <<>>
    <2>1. /\ Absent(a, "Apple-Challenge") /\ Absent(b, "Apple-Challenge")
          /\ Absent(d, "Apple-Challenge") /\ Absent(e, "Apple-Challenge")
      BY <1>5, <1>6, <1>8, <1>9
    <2>2. Absent(a \o b, "Apple-Challenge")
      BY <2>1, <1>5, <1>6, ConcatAbsent
    <2>3. CASE m.challenge # "none"
      <3>1. FirstIs((a \o b) \o c, "Apple-Challenge", m.challenge)
        BY <2>2, <2>3, <1>7, <1>10, ConcatRight
      <3>2. FirstIs(((a \o b) \o c) \o d, "Apple-Challenge", m.challenge)
        BY <3>1, <1>8, <1>10, ConcatLeft
      <3>3. FirstIs(Headers(m), "Apple-Challenge", m.challenge)
        BY <3>2, <1>1, <1>9, <1>10, ConcatLeft
      <3> QED BY <2>3, <3>3, <1>1, <1>10, GetFirst
    <2>4. CASE ~ (m.challenge # "none")
      <3>1. Absent((a \o b) \o c, "Apple-Challenge")
        BY <2>2, <2>4, <1>7, <1>10, ConcatAbsent
      <3>2. Absent(((a \o b) \o c) \o d, "Apple-Challenge")
        BY <2>1, <3>1, <1>8, <1>10, ConcatAbsent
      <3>3. Absent(Headers(m), "Apple-Challenge")
        BY <2>1, <3>2, <1>1, <1>9, <1>10, ConcatAbsent
      <3> QED BY <2>4, <3>3, GetAbsent
    <2> QED BY <2>3, <2>4
  <1>15. get(Headers(m), "CSeq") = <<m.cseq>>
    <2>1. Absent(a, "CSeq") /\ Absent(b, "CSeq") /\ Absent(c, "CSeq")
      BY <1>5, <1>6, <1>7
    <2>2. Absent((a \o b) \o c, "CSeq")
      BY <2>1, <1>5, <1>6, <1>7, <1>10, ConcatAbsent
    <2>3. FirstIs(((a \o b) \o c) \o d, "CSeq", m.cseq)
      BY <2>2, <1>8, <1>10, ConcatRight
    <2>4. FirstIs(Headers(m), "CSeq", m.cseq)
      BY <2>3, <1>1, <1>9, <1>10, ConcatLeft
    <2> QED BY <2>4, <1>1, <1>10, GetFirst
  <1>16. m.flaw = "headers" => Len(Headers(m)) > MaxHeaders
    BY <1>9, <1>11, ConnectionAssumption
  <1>17. Headers(m) \in Seq(HeaderItems) /\ Len(Headers(m)) \in Nat
    BY <1>1, <1>10, LenProperties
  <1> QED BY <1>12, <1>13, <1>14, <1>15, <1>16, <1>17

------------------------------------------------------------------------------
(* What a message looks like on its way, as far as the reader gets with it. *)

Readable(m) == m.flaw \notin {"stray", "line"}

LEMMA EncodedOf ==
    ASSUME NEW m \in Messages
    PROVE  LET E == Encoded(m)
               L == Len(Headers(m))
           IN  /\ E \in Seq(Items) /\ Len(E) \in Nat \ {0}
               /\ m.flaw = "stray" => E[1] = Blank
               /\ m.flaw = "line" => E[1] = Garbage
               /\ Readable(m) =>
                     /\ Len(E) >= L + 2
                     /\ E[1] = RequestLine(m.method)
                     /\ \A i \in 1..L : E[i + 1] = Headers(m)[i]
                     /\ m.flaw = "header" => E[L + 2] = Garbage
                     /\ m.flaw # "header" => /\ E[L + 2] = Blank
                                             /\ Len(E) = L + 2 + m.length
  <1> DEFINE E == Encoded(m)
             L == Len(Headers(m))
             a == When(m.flaw = "stray", Blank)
             f == IF m.flaw = "line" THEN Garbage ELSE RequestLine(m.method)
             b == <<f>>
             c == When(m.flaw = "header", Garbage)
             d == <<Blank>>
             e == [i \in 1..m.length |-> Byte]
             s == ((a \o b) \o Headers(m)) \o c
  <1>1. E = (s \o d) \o e
    BY DEF Encoded
  <1>2. m.length \in Nat /\ m.method \in Methods
    BY DEF Messages
  <1>3. /\ Headers(m) \in Seq(Items) /\ L \in Nat
    <2>1. HeaderItems \subseteq Items
      BY DEF Items
    <2> QED BY <2>1, HeadersOf, SeqMonotonic
  <1>4. /\ a \in Seq(Items) /\ Len(a) = (IF m.flaw = "stray" THEN 1 ELSE 0)
        /\ m.flaw = "stray" => a[1] = Blank
    BY ItemKinds DEF When
  <1>5. f \in Items /\ b \in Seq(Items) /\ Len(b) = 1 /\ b[1] = f
    <2>1. f \in Items
      BY <1>2, ItemKinds DEF Items
    <2> HIDE DEF f
    <2> QED BY <2>1
  <1>6. /\ c \in Seq(Items) /\ Len(c) = (IF m.flaw = "header" THEN 1 ELSE 0)
        /\ m.flaw = "header" => c[1] = Garbage
    BY ItemKinds DEF When
  <1>7. d \in Seq(Items) /\ Len(d) = 1 /\ d[1] = Blank
    BY ItemKinds
  <1>8. e \in Seq(Items) /\ Len(e) = m.length
    <2>1. e \in [1..m.length -> Items]
      BY ItemKinds
    <2> HIDE DEF e
    <2> QED BY <1>2, <2>1, FunctionIsSeq
  <1> HIDE DEF E, L, a, b, c, d, e, f
  <1>9. /\ a \o b \in Seq(Items) /\ Len(a \o b) = Len(a) + 1
        /\ (a \o b)[1] = (IF m.flaw = "stray" THEN Blank ELSE f)
    <2>1. /\ a \o b \in Seq(Items) /\ Len(a \o b) = Len(a) + 1
          /\ \A i \in 1..Len(a) : (a \o b)[i] = a[i]
          /\ (a \o b)[Len(a) + 1] = b[1]
      BY <1>4, <1>5, ConcatParts
    <2>2. CASE m.flaw = "stray"
      BY <1>4, <2>1, <2>2
    <2>3. CASE m.flaw # "stray"
      <3>1. Len(a) + 1 = 1
        BY <1>4, <2>3
      <3> QED BY <1>5, <2>1, <2>3, <3>1
    <2> QED BY <2>1, <2>2, <2>3
  <1>10. /\ (a \o b) \o Headers(m) \in Seq(Items)
         /\ Len((a \o b) \o Headers(m)) = Len(a) + 1 + L
         /\ ((a \o b) \o Headers(m))[1] = (a \o b)[1]
         /\ \A i \in 1..L : ((a \o b) \o Headers(m))[Len(a) + 1 + i] = Headers(m)[i]
    BY <1>3, <1>4, <1>9, ConcatParts DEF L
  <1>11. /\ s \in Seq(Items) /\ Len(s) = Len(a) + 1 + L + Len(c)
         /\ s[1] = (a \o b)[1]
         /\ \A i \in 1..L : s[Len(a) + 1 + i] = Headers(m)[i]
         /\ m.flaw = "header" => s[Len(a) + 1 + L + 1] = Garbage
    <2> DEFINE r == (a \o b) \o Headers(m)
    <2>1. /\ r \in Seq(Items) /\ Len(r) = Len(a) + 1 + L /\ r[1] = (a \o b)[1]
          /\ \A i \in 1..L : r[Len(a) + 1 + i] = Headers(m)[i]
          /\ s = r \o c /\ Len(a) \in Nat
      BY <1>4, <1>10, LenProperties
    <2> HIDE DEF r, s
    <2>2. /\ s \in Seq(Items) /\ Len(s) = Len(r) + Len(c)
          /\ \A i \in 1..Len(r) : s[i] = r[i]
          /\ \A i \in 1..Len(c) : s[Len(r) + i] = c[i]
      <3>1. r \in Seq(Items) /\ c \in Seq(Items) /\ s = r \o c
        BY <1>6, <2>1
      <3> QED BY <3>1, ConcatParts
    <2>3. s[1] = (a \o b)[1]
      <3>1. 1 \in 1..Len(r)
        BY <1>3, <2>1
      <3> QED BY <2>1, <2>2, <3>1
    <2>4. ASSUME NEW i \in 1..L PROVE s[Len(a) + 1 + i] = Headers(m)[i]
      BY <1>3, <2>1, <2>2
    <2>5. ASSUME m.flaw = "header" PROVE s[Len(a) + 1 + L + 1] = Garbage
      BY <1>3, <1>6, <2>1, <2>2, <2>5
    <2> QED BY <1>3, <2>1, <2>2, <2>3, <2>4, <2>5
  <1> HIDE DEF s
  <1>12. /\ s \o d \in Seq(Items) /\ Len(s \o d) = Len(s) + 1
         /\ \A i \in 1..Len(s) : (s \o d)[i] = s[i]
         /\ (s \o d)[Len(s) + 1] = Blank
    <2>1. Len(s) \in Nat
      BY <1>11, LenProperties
    <2>2. /\ s \o d \in Seq(Items) /\ Len(s \o d) = Len(s) + 1
          /\ \A i \in 1..Len(s) : (s \o d)[i] = s[i]
          /\ (s \o d)[Len(s) + 1] = d[1]
      <3>1. /\ s \o d \in Seq(Items) /\ Len(s \o d) = Len(s) + Len(d)
            /\ \A i \in 1..Len(s) : (s \o d)[i] = s[i]
            /\ \A i \in 1..Len(d) : (s \o d)[Len(s) + i] = d[i]
        <4>1. s \in Seq(Items) /\ d \in Seq(Items)
          BY <1>7, <1>11
        <4> QED BY <4>1, ConcatParts
      <3> QED BY <1>7, <3>1
    <2> QED BY <1>7, <2>1, <2>2
  <1>13. /\ E \in Seq(Items) /\ Len(E) = Len(s) + 1 + m.length
         /\ \A i \in 1..Len(s) : E[i] = s[i]
         /\ E[Len(s) + 1] = Blank
    <2>1. Len(s) \in Nat
      BY <1>11, LenProperties
    <2>2. \A i \in 1..(Len(s) + 1) : E[i] = (s \o d)[i]
      BY <1>1, <1>2, <1>8, <1>12, <2>1, ConcatProperties
    <2>3. E \in Seq(Items) /\ Len(E) = Len(s) + 1 + m.length
      <3>1. E \in Seq(Items) /\ Len(E) = Len(s \o d) + Len(e)
        BY <1>1, <1>8, <1>12, ConcatParts
      <3> QED BY <1>8, <1>12, <3>1
    <2> QED BY <1>12, <2>1, <2>2, <2>3
  <1>14. Len(s) \in Nat /\ Len(s) >= 1 /\ Len(E) \in Nat \ {0}
    BY <1>2, <1>3, <1>4, <1>6, <1>11, <1>13
  <1>15. E[1] = (IF m.flaw = "stray" THEN Blank ELSE f)
    BY <1>9, <1>11, <1>13, <1>14
  <1>16. ASSUME Readable(m)
         PROVE  /\ Len(E) >= L + 2
                /\ E[1] = RequestLine(m.method)
                /\ \A i \in 1..L : E[i + 1] = Headers(m)[i]
                /\ m.flaw = "header" => E[L + 2] = Garbage
                /\ m.flaw # "header" => E[L + 2] = Blank /\ Len(E) = L + 2 + m.length
    <2>1. Len(a) = 0 /\ m.flaw # "line" /\ m.flaw # "stray"
      BY <1>4, <1>16 DEF Readable
    <2>2. Len(s) = 1 + L + Len(c)
      BY <1>3, <1>6, <1>11, <2>1
    <2>3. E[1] = RequestLine(m.method)
      BY <1>15, <2>1 DEF f
    <2>4. ASSUME NEW i \in 1..L PROVE E[i + 1] = Headers(m)[i]
      <3>1. i + 1 \in 1..Len(s) /\ Len(a) + 1 + i = i + 1
        BY <1>3, <1>6, <2>1, <2>2
      <3> QED BY <1>11, <1>13, <3>1
    <2>5. CASE m.flaw = "header"
      <3>1. L + 2 \in 1..Len(s) /\ Len(a) + 1 + L + 1 = L + 2 /\ Len(s) = L + 2
        BY <1>3, <1>6, <2>1, <2>2, <2>5
      <3>2. E[L + 2] = Garbage
        BY <1>11, <1>13, <2>5, <3>1
      <3> QED BY <1>2, <1>3, <1>13, <2>3, <2>4, <2>5, <3>1, <3>2
    <2>6. CASE m.flaw # "header"
      <3>1. Len(s) + 1 = L + 2
        BY <1>3, <1>6, <2>2, <2>6
      <3> QED BY <1>2, <1>3, <1>13, <2>3, <2>4, <2>6, <3>1
    <2> QED BY <2>5, <2>6
  <1>17. m.flaw = "line" => E[1] = Garbage
    BY <1>15 DEF f
  <1> QED BY <1>13, <1>14, <1>15, <1>16, <1>17 DEF E, L
------------------------------------------------------------------------------
(* The stream s is what follows the r items that were read of the message  *)
(* after the n-th, of those in ms: start[i] is where the i-th begins, and  *)
(* a line that was broken off may stand for any item.  What was cut off is *)
(* missing at the end, and nothing is if h, the sender hung up, is false.  *)

Starts(start, ms, n, r) ==
    /\ start \in [1..(Len(ms) + 1) -> Int]
    /\ start[n + 1] = 1 - r
    /\ \A i \in (n + 1)..Len(ms) : start[i + 1] = start[i] + Len(Encoded(ms[i]))
    /\ \A i \in (n + 1)..(Len(ms) + 1) : start[i] <= start[Len(ms) + 1]

Stands(start, s, ms, n) ==
    \A i \in (n + 1)..Len(ms) : \A j \in 1..Len(Encoded(ms[i])) :
        \A p \in 1..Len(s) :
            p = start[i] + j - 1 => s[p] \in {Encoded(ms[i])[j], Garbage}

Ends(start, s, ms, h) ==
    /\ Len(s) <= start[Len(ms) + 1] - 1
    /\ ~ h => Len(s) = start[Len(ms) + 1] - 1

Framed(s, ms, n, r, h) ==
    \E start \in [1..(Len(ms) + 1) -> Int] :
        Starts(start, ms, n, r) /\ Stands(start, s, ms, n) /\ Ends(start, s, ms, h)

LEMMA EncodedLength ==
    ASSUME NEW ms \in Seq(Messages), NEW i \in 1..Len(ms)
    PROVE  /\ ms[i] \in Messages /\ Encoded(ms[i]) \in Seq(Items)
           /\ Len(Encoded(ms[i])) \in Nat \ {0}
  <1>1. ms[i] \in Messages
    BY ElementOfSeq
  <1> QED BY <1>1, EncodedOf

\* At the start of a connection.
LEMMA NothingFramed == Framed(<<>>, <<>>, 0, 0, FALSE)
  <1> DEFINE start == [i \in 1..1 |-> 1]
  <1>1. Len(<<>>) = 0
    OBVIOUS
  <1>2. start \in [1..1 -> Int] /\ start[1] = 1
    OBVIOUS
  <1> HIDE DEF start
  <1>3. Starts(start, <<>>, 0, 0) /\ Stands(start, <<>>, <<>>, 0) /\ Ends(start, <<>>, <<>>, FALSE)
    BY <1>1, <1>2 DEF Starts, Stands, Ends
  <1>4. start \in [1..(Len(<<>>) + 1) -> Int]
    <2>1. Len(<<>>) + 1 = 1
      BY <1>1
    <2> QED BY <1>2, <2>1
  <1> QED BY <1>3, <1>4 DEF Framed

\* What is read next is the next item of the message, and where no message
\* follows there is nothing to read.
LEMMA HeadIsNext ==
    ASSUME NEW s \in Seq(Items), s # <<>>, NEW ms \in Seq(Messages), NEW n \in 0..Len(ms),
           NEW r \in Nat, NEW h, Framed(s, ms, n, r, h)
    PROVE  /\ r = 0 => n < Len(ms)
           /\ n < Len(ms) /\ r < Len(Encoded(ms[n + 1])) =>
                 Head(s) \in {Encoded(ms[n + 1])[r + 1], Garbage}
  <1>1. Len(s) \in Nat \ {0} /\ Head(s) = s[1] /\ Len(ms) \in Nat
    BY EmptySeq, LenProperties
  <1>2. PICK start \in [1..(Len(ms) + 1) -> Int] :
           Starts(start, ms, n, r) /\ Stands(start, s, ms, n) /\ Ends(start, s, ms, h)
    BY DEF Framed
  <1>3. ASSUME r = 0 PROVE n < Len(ms)
    <2>1. CASE n = Len(ms)
      BY <1>1, <1>2, <1>3, <2>1 DEF Starts, Ends
    <2> QED BY <1>1, <2>1
  <1>4. ASSUME n < Len(ms), r < Len(Encoded(ms[n + 1]))
        PROVE  Head(s) \in {Encoded(ms[n + 1])[r + 1], Garbage}
    <2>1. /\ n + 1 \in (n + 1)..Len(ms) /\ r + 1 \in 1..Len(Encoded(ms[n + 1]))
      BY <1>1, <1>4, EncodedLength
    <2>2. start[n + 1] + (r + 1) - 1 = 1 /\ 1 \in 1..Len(s)
      BY <1>1, <1>2 DEF Starts
    <2>3. s[1] \in {Encoded(ms[n + 1])[r + 1], Garbage}
      BY <1>2, <2>1, <2>2 DEF Stands
    <2> QED BY <1>1, <2>3
  <1> QED BY <1>3, <1>4

LEMMA Shift ==
    ASSUME NEW a \in Int, NEW b \in Int, NEW l \in Nat, NEW c, NEW d, c = a - 1, d = b - 1
    PROVE  /\ b = a + l => d = c + l
           /\ a <= b => c <= d
  OBVIOUS

LEMMA ShiftPlace ==
    ASSUME NEW a \in Int, NEW c, NEW j \in Int, NEW p \in Int, c = a - 1, p = c + j - 1
    PROVE  p + 1 = a + j - 1
  OBVIOUS

LEMMA LastPlace ==
    ASSUME NEW a \in Int, NEW l \in Int, NEW j \in Int, NEW p, l = a - 1, p = a + j - 1
    PROVE  p = l + j
  OBVIOUS

LEMMA TakeFramed ==
    ASSUME NEW s \in Seq(Items), s # <<>>, NEW ms \in Seq(Messages), NEW n \in 0..Len(ms),
           NEW r \in Nat, NEW h \in BOOLEAN, Framed(s, ms, n, r, h)
    PROVE  Framed(Tail(s), ms, n, r + 1, h)
  <1>1. PICK start \in [1..(Len(ms) + 1) -> Int] :
           Starts(start, ms, n, r) /\ Stands(start, s, ms, n) /\ Ends(start, s, ms, h)
    BY DEF Framed
  <1>2. /\ Len(s) \in Nat /\ Len(Tail(s)) = Len(s) - 1 /\ Len(ms) \in Nat
        /\ \A i \in 1..Len(Tail(s)) : Tail(s)[i] = s[i + 1]
    BY HeadTailProperties, LenProperties
  <1> DEFINE shifted == [i \in 1..(Len(ms) + 1) |-> start[i] - 1]
  <1>3. /\ shifted \in [1..(Len(ms) + 1) -> Int]
        /\ \A i \in 1..(Len(ms) + 1) : shifted[i] = start[i] - 1 /\ start[i] \in Int
    OBVIOUS
  <1> HIDE DEF shifted
  <1>4. Starts(shifted, ms, n, r + 1)
    <2>1. ASSUME NEW i \in (n + 1)..Len(ms)
          PROVE  shifted[i + 1] = shifted[i] + Len(Encoded(ms[i]))
      <3>1. i \in 1..(Len(ms) + 1) /\ i + 1 \in 1..(Len(ms) + 1) /\ i \in 1..Len(ms)
        BY <1>2
      <3>2. Len(Encoded(ms[i])) \in Nat
        BY <3>1, EncodedLength
      <3>3. start[i + 1] = start[i] + Len(Encoded(ms[i]))
        BY <1>1 DEF Starts
      <3>4. /\ shifted[i] = start[i] - 1 /\ start[i] \in Int
            /\ shifted[i + 1] = start[i + 1] - 1 /\ start[i + 1] \in Int
        BY <1>3, <3>1
      <3> QED BY <3>2, <3>3, <3>4, Shift
    <2>2. shifted[n + 1] = 1 - (r + 1)
      <3>1. n + 1 \in 1..(Len(ms) + 1)
        BY <1>2
      <3>2. shifted[n + 1] = start[n + 1] - 1
        BY <1>3, <3>1
      <3>3. start[n + 1] = 1 - r
        BY <1>1 DEF Starts
      <3> QED BY <3>2, <3>3
    <2>3. ASSUME NEW i \in (n + 1)..(Len(ms) + 1) PROVE shifted[i] <= shifted[Len(ms) + 1]
      <3>1. i \in 1..(Len(ms) + 1) /\ Len(ms) + 1 \in 1..(Len(ms) + 1)
        BY <1>2
      <3>2. start[i] <= start[Len(ms) + 1]
        BY <1>1 DEF Starts
      <3>3. /\ shifted[i] = start[i] - 1 /\ start[i] \in Int
            /\ shifted[Len(ms) + 1] = start[Len(ms) + 1] - 1 /\ start[Len(ms) + 1] \in Int
        BY <1>3, <3>1
      <3> QED BY <3>2, <3>3, Shift
    <2> QED BY <1>3, <2>1, <2>2, <2>3 DEF Starts
  <1>5. Stands(shifted, Tail(s), ms, n)
    <2> SUFFICES ASSUME NEW i \in (n + 1)..Len(ms), NEW j \in 1..Len(Encoded(ms[i])),
                        NEW p \in 1..Len(Tail(s)), p = shifted[i] + j - 1
                 PROVE  Tail(s)[p] \in {Encoded(ms[i])[j], Garbage}
      BY DEF Stands
    <2>1. i \in 1..(Len(ms) + 1) /\ i \in 1..Len(ms)
      BY <1>2
    <2>2. Len(Encoded(ms[i])) \in Nat
      BY <2>1, EncodedLength
    <2>3. p + 1 = start[i] + j - 1 /\ p + 1 \in 1..Len(s)
      <3>1. shifted[i] = start[i] - 1 /\ start[i] \in Int
        BY <1>3, <2>1
      <3>2. j \in Int /\ p \in Int /\ p = shifted[i] + j - 1
        OBVIOUS
      <3>3. p + 1 = start[i] + j - 1
        BY <3>1, <3>2, ShiftPlace
      <3> QED BY <1>2, <3>3
    <2>4. s[p + 1] \in {Encoded(ms[i])[j], Garbage}
      BY <1>1, <2>3 DEF Stands
    <2> QED BY <1>2, <2>4
  <1>6. Ends(shifted, Tail(s), ms, h)
    <2>1. Len(ms) + 1 \in 1..(Len(ms) + 1)
      BY <1>2
    <2>2. shifted[Len(ms) + 1] = start[Len(ms) + 1] - 1 /\ start[Len(ms) + 1] \in Int
      BY <1>3, <2>1
    <2> QED BY <1>1, <1>2, <2>2 DEF Ends
  <1> QED BY <1>3, <1>4, <1>5, <1>6 DEF Framed

\* After a whole message the next one begins.
LEMMA NextFramed ==
    ASSUME NEW s \in Seq(Items), NEW ms \in Seq(Messages), NEW n \in 0..(Len(ms) - 1),
           NEW h \in BOOLEAN, Framed(s, ms, n, Len(Encoded(ms[n + 1])), h)
    PROVE  Framed(s, ms, n + 1, 0, h)
  <1>1. PICK start \in [1..(Len(ms) + 1) -> Int] :
           /\ Starts(start, ms, n, Len(Encoded(ms[n + 1])))
           /\ Stands(start, s, ms, n) /\ Ends(start, s, ms, h)
    BY DEF Framed
  <1>2. Len(ms) \in Nat /\ n + 1 \in 1..Len(ms)
    BY LenProperties
  <1>3. Len(Encoded(ms[n + 1])) \in Nat
    BY <1>2, EncodedLength
  <1>4. start[(n + 1) + 1] = 1 - 0
    BY <1>1, <1>2, <1>3 DEF Starts
  <1>5. \A i \in ((n + 1) + 1)..Len(ms) : i \in (n + 1)..Len(ms)
    BY <1>2
  <1>6. Starts(start, ms, n + 1, 0)
    <2>1. \A i \in ((n + 1) + 1)..(Len(ms) + 1) : i \in (n + 1)..(Len(ms) + 1)
      BY <1>2
    <2> QED BY <1>1, <1>4, <1>5, <2>1 DEF Starts
  <1>7. Stands(start, s, ms, n + 1)
    BY <1>1, <1>5 DEF Stands
  <1> QED BY <1>1, <1>6, <1>7 DEF Framed

\* The sender writes another message behind the others.
LEMMA SendFramed ==
    ASSUME NEW s \in Seq(Items), NEW ms \in Seq(Messages), NEW n \in 0..Len(ms),
           NEW r \in Nat, NEW m \in Messages, Framed(s, ms, n, r, FALSE)
    PROVE  Framed(s \o Encoded(m), Append(ms, m), n, r, FALSE)
  <1>1. PICK start \in [1..(Len(ms) + 1) -> Int] :
           Starts(start, ms, n, r) /\ Stands(start, s, ms, n) /\ Ends(start, s, ms, FALSE)
    BY DEF Framed
  <1> DEFINE k == Len(ms)
             ns == Append(ms, m)
             e == Encoded(m)
             t == s \o e
             further == [i \in 1..(k + 2) |-> IF i = k + 2 THEN start[k + 1] + Len(e) ELSE start[i]]
  <1>2. /\ k \in Nat /\ Len(ns) = k + 1 /\ ns[k + 1] = m
        /\ \A i \in 1..k : ns[i] = ms[i]
    BY AppendProperties, LenProperties
  <1>3. e \in Seq(Items) /\ Len(e) \in Nat
    BY EncodedOf
  <1>4. /\ Len(s) \in Nat /\ Len(t) = Len(s) + Len(e)
        /\ \A p \in 1..Len(s) : t[p] = s[p]
        /\ \A p \in 1..Len(e) : t[Len(s) + p] = e[p]
    BY <1>3, ConcatParts
  <1>5. Len(s) = start[k + 1] - 1 /\ start[k + 1] \in Int
    BY <1>1, <1>2 DEF Ends
  <1>6. further \in [1..(Len(ns) + 1) -> Int]
    BY <1>2, <1>3, <1>5
  <1>7. /\ \A i \in 1..(k + 1) : further[i] = start[i]
        /\ further[k + 2] = start[k + 1] + Len(e)
    BY <1>2
  <1> HIDE DEF further, e, t, ns
  <1>8. Starts(further, ns, n, r)
    <2>1. further[n + 1] = 1 - r
      BY <1>1, <1>2, <1>7 DEF Starts
    <2>2. ASSUME NEW i \in (n + 1)..Len(ns)
          PROVE  further[i + 1] = further[i] + Len(Encoded(ns[i]))
      <3>1. CASE i = k + 1
        BY <1>2, <1>7, <3>1 DEF e
      <3>2. CASE i # k + 1
        <4>1. /\ i \in (n + 1)..Len(ms) /\ i \in 1..k
              /\ i \in 1..(k + 1) /\ i + 1 \in 1..(k + 1)
          BY <1>2, <3>2
        <4> QED BY <1>1, <1>2, <1>7, <4>1 DEF Starts
      <3> QED BY <3>1, <3>2
    <2>3. ASSUME NEW i \in (n + 1)..(Len(ns) + 1) PROVE further[i] <= further[Len(ns) + 1]
      <3>1. CASE i = k + 2
        BY <1>2, <1>3, <1>5, <1>7, <3>1
      <3>2. CASE i # k + 2
        <4>1. i \in (n + 1)..(k + 1) /\ i \in 1..(k + 1)
          BY <1>2, <3>2
        <4>2. start[i] <= start[k + 1] /\ start[i] \in Int
          BY <1>1, <4>1 DEF Starts
        <4> QED BY <1>2, <1>3, <1>5, <1>7, <4>1, <4>2
      <3> QED BY <3>1, <3>2
    <2> QED BY <1>6, <2>1, <2>2, <2>3 DEF Starts
  <1>9. Stands(further, t, ns, n)
    <2> SUFFICES ASSUME NEW i \in (n + 1)..Len(ns), NEW j \in 1..Len(Encoded(ns[i])),
                        NEW p \in 1..Len(t), p = further[i] + j - 1
                 PROVE  t[p] \in {Encoded(ns[i])[j], Garbage}
      BY DEF Stands
    <2>1. CASE i = k + 1
      <3>1. p = Len(s) + j /\ j \in 1..Len(e) /\ Encoded(ns[i]) = e
        <4>1. Encoded(ns[i]) = e
          BY <1>2, <2>1 DEF e
        <4>2. j \in 1..Len(e)
          BY <4>1
        <4>3. k + 1 \in 1..(k + 1)
          BY <1>2
        <4>4. p = start[k + 1] + j - 1 /\ j \in Int
          BY <1>7, <2>1, <4>3
        <4>5. Len(s) \in Int
          BY <1>4
        <4>6. p = Len(s) + j
          BY <1>5, <4>4, <4>5, LastPlace
        <4> QED BY <4>1, <4>2, <4>6
      <3> QED BY <1>4, <3>1
    <2>2. CASE i # k + 1
      <3>1. i \in (n + 1)..Len(ms) /\ i \in 1..k /\ i \in 1..(k + 1) /\ i + 1 \in 1..(k + 1)
        BY <1>2, <2>2
      <3>2. ns[i] = ms[i] /\ p = start[i] + j - 1
        BY <1>2, <1>7, <3>1
      <3>3. CASE p <= Len(s)
        <4>1. p \in 1..Len(s)
          BY <1>4, <3>3
        <4>2. s[p] \in {Encoded(ms[i])[j], Garbage}
          BY <1>1, <3>1, <3>2, <4>1 DEF Stands
        <4> QED BY <1>4, <3>2, <4>1, <4>2
      <3>4. p <= Len(s)
        <4>1. /\ start[i + 1] = start[i] + Len(Encoded(ms[i])) /\ start[i] \in Int
              /\ start[i + 1] <= start[k + 1]
          <5>1. i + 1 \in (n + 1)..(Len(ms) + 1)
            BY <1>2, <3>1
          <5> QED BY <1>1, <3>1, <5>1 DEF Starts
        <4>2. Len(Encoded(ms[i])) \in Nat /\ j <= Len(Encoded(ms[i])) /\ j \in Int
          BY <3>1, <3>2, EncodedLength
        <4>3. start[i] + Len(Encoded(ms[i])) <= start[k + 1]
          BY <4>1
        <4> DEFINE a == start[i]
                   l == Len(Encoded(ms[i]))
                   b == start[k + 1]
        <4>4. /\ p = a + j - 1 /\ a + l <= b /\ Len(s) = b - 1 /\ j <= l
              /\ a \in Int /\ b \in Int /\ l \in Nat /\ j \in Int
          BY <1>5, <3>2, <4>1, <4>2, <4>3
        <4> HIDE DEF a, b, l
        <4> QED BY <4>4
      <3> QED BY <3>3, <3>4
    <2> QED BY <2>1, <2>2
  <1>10. Ends(further, t, ns, FALSE)
    BY <1>2, <1>3, <1>4, <1>5, <1>7 DEF Ends
  <1> QED BY <1>6, <1>8, <1>9, <1>10 DEF Framed, t, ns, e

\* The sender hangs up: the rest of what it wrote does not arrive, and the
\* line it was at may be cut short.
LEMMA CutFramed ==
    ASSUME NEW s \in Seq(Items), NEW ms \in Seq(Messages), NEW n \in 0..Len(ms),
           NEW r \in Nat, NEW h, Framed(s, ms, n, r, h), NEW c \in 0..Len(s), NEW t,
           \/ t = SubSeq(s, 1, c)
           \/ c < Len(s) /\ t = Append(SubSeq(s, 1, c), Garbage)
    PROVE  t \in Seq(Items) /\ Framed(t, ms, n, r, TRUE)
  <1>1. PICK start \in [1..(Len(ms) + 1) -> Int] :
           Starts(start, ms, n, r) /\ Stands(start, s, ms, n) /\ Ends(start, s, ms, h)
    BY DEF Framed
  <1> DEFINE u == SubSeq(s, 1, c)
  <1>2. Len(s) \in Nat /\ c \in Nat /\ \A i \in 1..c : s[i] \in Items
    BY ElementOfSeq, LenProperties
  <1>3. /\ u \in Seq(Items) /\ Len(u) = c
        /\ \A i \in 1..c : u[i] = s[i]
    <2>1. /\ u \in Seq(Items) /\ Len(u) = (IF 1 <= c THEN c - 1 + 1 ELSE 0)
          /\ \A i \in 1..(c - 1 + 1) : u[i] = s[1 + i - 1]
      BY <1>2, SubSeqProperties
    <2> HIDE DEF u
    <2> QED BY <1>2, <2>1
  <1> HIDE DEF u
  <1>4. /\ t \in Seq(Items) /\ Len(t) \in Nat /\ Len(t) <= Len(s)
        /\ \A p \in 1..Len(t) : p \in 1..Len(s) /\ t[p] \in {s[p], Garbage}
    <2>1. CASE t = u
      BY <1>2, <1>3, <2>1
    <2>2. CASE c < Len(s) /\ t = Append(u, Garbage)
      <3>1. /\ t \in Seq(Items) /\ Len(t) = c + 1 /\ t[c + 1] = Garbage
            /\ \A i \in 1..c : t[i] = u[i]
        BY <1>3, <2>2, ItemKinds, AppendProperties
      <3>2. ASSUME NEW p \in 1..(c + 1) PROVE p \in 1..Len(s) /\ t[p] \in {s[p], Garbage}
        <4>1. p = c + 1 \/ p \in 1..c
          BY <1>2
        <4> QED BY <1>2, <1>3, <2>2, <3>1, <4>1
      <3> QED BY <1>2, <2>2, <3>1, <3>2
    <2> QED BY <2>1, <2>2 DEF u
  <1>5. Stands(start, t, ms, n)
    BY <1>1, <1>4 DEF Stands
  <1>6. Ends(start, t, ms, TRUE)
    <2>1. start[Len(ms) + 1] \in Int
      BY LenProperties
    <2> QED BY <1>1, <1>2, <1>4, <2>1 DEF Ends
  <1> QED BY <1>1, <1>4, <1>5, <1>6 DEF Framed
------------------------------------------------------------------------------
(* The invariant. *)

Records == [status : {"401", "handled", "501"}, nonce : Nat, cseq : {<<n>> : n \in Nat},
            signed : {<<>>, <<"good">>}]

Requests == [method : Methods \cup {"none"}, headers : Seq(HeaderItems), body : Nat]

Types ==
    /\ protected \in BOOLEAN /\ hung \in BOOLEAN /\ authorized \in BOOLEAN
    /\ conn \in Nat \ {0} /\ nonce \in Nat
    /\ messages \in Seq(Messages) /\ stream \in Seq(Items) /\ answers \in Seq(Records)
    /\ Len(answers) <= Len(messages)
    /\ phase \in {"line", "headers", "body", "handle", "closed"}
    /\ request \in Requests

\* The message that is read, and how many of its items were.
Current == messages[Len(answers) + 1]

ItemsRead ==
    CASE phase = "line"    -> 0
      [] phase = "headers" -> 1 + Len(request.headers)
      [] phase = "body"    -> 2 + Len(request.headers) + request.body
      [] phase = "handle"  -> Len(Encoded(Current))
      [] phase = "closed"  -> 0

Position == phase # "closed" => Framed(stream, messages, Len(answers), ItemsRead, hung)

\* What was read is what stands there.
Begun ==
    /\ phase = "line" => request = Idle
    /\ phase \in {"headers", "body", "handle"} =>
          /\ Len(answers) < Len(messages)
          /\ Readable(Current) /\ request.method = Current.method
    /\ phase = "headers" =>
          /\ request.body = 0
          /\ Len(request.headers) <= Len(Headers(Current))
          /\ Len(request.headers) <= MaxHeaders
          /\ \A i \in 1..Len(request.headers) : request.headers[i] = Headers(Current)[i]
    /\ phase = "body" =>
          /\ request.headers = Headers(Current)
          /\ WellFormed(Current) /\ request.body < Current.length
    /\ phase = "handle" =>
          /\ WellFormed(Current)
          /\ request = [method |-> Current.method, headers |-> Headers(Current),
                        body |-> Current.length]

Served == \A i \in 1..Len(answers) : WellFormed(messages[i])

\* What the session remembers of the answers.
Gate ==
    phase # "closed" =>
        /\ nonce = IF \E j \in 1..Len(answers) : answers[j].status = "401" THEN conn ELSE 0
        /\ protected => (authorized <=> \E j \in 1..Len(answers) : Proves(j))

ConnectionInv ==
    Types /\ Position /\ Begun /\ Served /\ Gate /\ AnswersMatch /\ DeniedUntilProven

LEMMA CurrentMessage ==
    ASSUME Types, Len(answers) < Len(messages)
    PROVE  /\ Current \in Messages /\ Len(answers) \in 0..(Len(messages) - 1)
           /\ Len(answers) + 1 \in 1..Len(messages)
  <1>1. Len(answers) \in Nat /\ Len(messages) \in Nat
    BY LenProperties DEF Types
  <1>2. Len(answers) + 1 \in 1..Len(messages) /\ Len(answers) \in 0..(Len(messages) - 1)
    BY <1>1
  <1> QED BY <1>2, ElementOfSeq DEF Types, Current

LEMMA ItemsReadType == ConnectionInv => ItemsRead \in Nat
  <1> SUFFICES ASSUME ConnectionInv PROVE ItemsRead \in Nat
    OBVIOUS
  <1>1. Types
    BY DEF ConnectionInv
  <1>2. CASE phase = "handle"
    <2>1. Len(answers) < Len(messages)
      BY <1>2 DEF ConnectionInv, Begun
    <2>2. Len(Encoded(Current)) \in Nat
      BY <1>1, <2>1, CurrentMessage, EncodedOf
    <2> QED BY <1>2, <2>2 DEF ItemsRead
  <1>3. CASE phase # "handle"
    <2>1. request.headers \in Seq(HeaderItems) /\ request.body \in Nat
      BY <1>1 DEF Types, Requests
    <2>2. Len(request.headers) \in Nat
      BY <2>1, LenProperties
    <2> QED BY <1>1, <1>3, <2>1, <2>2 DEF ItemsRead, Types
  <1> QED BY <1>2, <1>3

\* A step after which the connection is closed, with the answers as they were.
LEMMA ClosedInv ==
    ASSUME ConnectionInv, Types', phase' = "closed",
           UNCHANGED <<protected, conn, messages, answers>>
    PROVE  ConnectionInv'
  <1>1. /\ protected' = protected /\ conn' = conn /\ messages' = messages /\ answers' = answers
    OBVIOUS
  <1>2. Position' /\ Begun' /\ Gate'
    BY DEF Position, Begun, Gate
  <1>3. Served' /\ AnswersMatch' /\ DeniedUntilProven'
    BY <1>1 DEF ConnectionInv, Served, AnswersMatch, DeniedUntilProven, Proves
  <1> QED BY <1>2, <1>3 DEF ConnectionInv

\* A step of the reader in which the session and the answers stay.
LEMMA ReadInv ==
    ASSUME ConnectionInv, Types', Position', Begun', phase # "closed",
           UNCHANGED <<protected, conn, messages, answers, nonce, authorized>>
    PROVE  ConnectionInv'
  <1>1. /\ protected' = protected /\ conn' = conn /\ messages' = messages /\ answers' = answers
        /\ nonce' = nonce /\ authorized' = authorized
    OBVIOUS
  <1>2. Served' /\ AnswersMatch' /\ DeniedUntilProven'
    BY <1>1 DEF ConnectionInv, Served, AnswersMatch, DeniedUntilProven, Proves
  <1>3. Gate'
    <2>1. \A j \in 1..Len(answers) : Proves(j)' <=> Proves(j)
      BY <1>1 DEF Proves
    <2>2. Gate
      BY DEF ConnectionInv
    <2> QED BY <1>1, <2>1, <2>2 DEF Gate
  <1> QED BY <1>2, <1>3 DEF ConnectionInv

LEMMA FreshInv ==
    ASSUME protected' \in BOOLEAN, conn' \in Nat \ {0},
           messages' = <<>>, stream' = <<>>, hung' = FALSE, phase' = "line", request' = Idle,
           authorized' = FALSE, nonce' = 0, answers' = <<>>
    PROVE  ConnectionInv'
  <1>1. Len(<<>>) = 0 /\ 1..0 = {}
    OBVIOUS
  <1>2. /\ Idle \in Requests
        /\ <<>> \in Seq(Messages) /\ <<>> \in Seq(Items) /\ <<>> \in Seq(Records)
    BY EmptySeq DEF Idle, Requests
  <1>3. Types'
    <2>1. Len(answers') <= Len(messages')
      BY <1>1
    <2> QED BY <1>2, <2>1 DEF Types
  <1>4. Position'
    <2>1. ItemsRead' = 0
      BY DEF ItemsRead
    <2> QED BY <1>1, <2>1, NothingFramed DEF Position
  <1>5. Begun' /\ Served' /\ AnswersMatch' /\ DeniedUntilProven' /\ Gate'
    BY <1>1 DEF Begun, Served, AnswersMatch, DeniedUntilProven, Gate
  <1> QED BY <1>3, <1>4, <1>5 DEF ConnectionInv

LEMMA InitInv == Init => ConnectionInv
  <1> SUFFICES ASSUME Init PROVE ConnectionInv
    OBVIOUS
  <1>1. /\ protected \in BOOLEAN /\ conn = 1 /\ messages = <<>> /\ stream = <<>> /\ hung = FALSE
        /\ phase = "line" /\ request = Idle /\ authorized = FALSE /\ nonce = 0 /\ answers = <<>>
    BY DEF Init
  <1>2. Len(<<>>) = 0 /\ 1..0 = {}
    OBVIOUS
  <1>3. /\ Idle \in Requests
        /\ <<>> \in Seq(Messages) /\ <<>> \in Seq(Items) /\ <<>> \in Seq(Records)
    BY EmptySeq DEF Idle, Requests
  <1>4. Types
    <2>1. Len(answers) <= Len(messages) /\ conn \in Nat \ {0} /\ nonce \in Nat
      BY <1>1, <1>2
    <2> QED BY <1>1, <1>3, <2>1 DEF Types
  <1>5. Position
    <2>1. ItemsRead = 0
      BY <1>1 DEF ItemsRead
    <2> QED BY <1>1, <1>2, <2>1, NothingFramed DEF Position
  <1>6. Begun /\ Served /\ AnswersMatch /\ DeniedUntilProven /\ Gate
    BY <1>1, <1>2 DEF Begun, Served, AnswersMatch, DeniedUntilProven, Gate
  <1> QED BY <1>4, <1>5, <1>6 DEF ConnectionInv

LEMMA ReconnectInv == ASSUME ConnectionInv, Reconnect PROVE ConnectionInv'
  <1>1. protected' \in BOOLEAN /\ conn' \in Nat \ {0}
    BY DEF Reconnect, ConnectionInv, Types
  <1> QED BY <1>1, FreshInv DEF Reconnect

------------------------------------------------------------------------------
(* The sender. *)

LEMMA SendInv == ASSUME ConnectionInv, Send PROVE ConnectionInv'
  <1>1. PICK f \in Forms : \E a \in Authorizations(f) :
           LET m == [method |-> f.method, length |-> f.length, challenge |-> f.challenge,
                     flaw |-> f.flaw, auth |-> a, cseq |-> Len(messages) + 1]
           IN  messages' = Append(messages, m) /\ stream' = stream \o Encoded(m)
    BY DEF Send
  <1>2. PICK a \in Authorizations(f) :
           LET m == [method |-> f.method, length |-> f.length, challenge |-> f.challenge,
                     flaw |-> f.flaw, auth |-> a, cseq |-> Len(messages) + 1]
           IN  messages' = Append(messages, m) /\ stream' = stream \o Encoded(m)
    BY <1>1
  <1> DEFINE m == [method |-> f.method, length |-> f.length, challenge |-> f.challenge,
                   flaw |-> f.flaw, auth |-> a, cseq |-> Len(messages) + 1]
  <1>3. messages' = Append(messages, m) /\ stream' = stream \o Encoded(m)
    BY <1>2
  <1>4. /\ protected' = protected /\ conn' = conn /\ hung' = hung /\ phase' = phase
        /\ request' = request /\ authorized' = authorized /\ nonce' = nonce /\ answers' = answers
        /\ hung = FALSE
    BY DEF Send, sessionVars, ConnectionInv, Types
  <1>5. Types
    BY DEF ConnectionInv
  <1>6. Len(messages) \in Nat /\ Len(answers) \in Nat
    BY <1>5, LenProperties DEF Types
  <1>7. m \in Messages
    <2>1. f \in [method : {"known", "unknown"}, length : Nat,
                 challenge : {"none", "good", "bad"},
                 credentials : {"none", "incomplete", "digest"}, flaw : Flaws]
      BY ConnectionAssumption
    <2>2. f.flaw = "length" => f.length > 0
      BY ConnectionAssumption
    <2>3. Known \subseteq Nat
      <3>1. ASSUME NEW i \in 1..Len(answers) PROVE answers[i].nonce \in Nat
        <4>1. answers[i] \in Records
          BY <1>5, ElementOfSeq DEF Types
        <4> QED BY <4>1 DEF Records
      <3>2. 0..(conn - 1) \subseteq Nat
        BY <1>5 DEF Types
      <3> QED BY <3>1, <3>2 DEF Known
    <2>4. a \in Auths
      <3>1. CASE f.credentials = "none"
        BY <3>1 DEF Authorizations, Auths
      <3>2. CASE f.credentials = "incomplete"
        BY <3>2 DEF Authorizations, Auths
      <3>3. CASE f.credentials = "digest"
        <4>1. PICK p \in Passwords, n \in Known : a = digest_response(p, f.method, n)
          BY <3>3 DEF Authorizations
        <4> QED BY <2>1, <2>3, <4>1 DEF Auths, Methods
      <3> QED BY <2>1, <3>1, <3>2, <3>3
    <2> QED BY <1>6, <2>1, <2>2, <2>4 DEF Messages, Methods
  <1> HIDE DEF m
  <1>8. /\ messages' \in Seq(Messages) /\ Len(messages') = Len(messages) + 1
        /\ \A i \in 1..Len(messages) : messages'[i] = messages[i]
    BY <1>3, <1>5, <1>7, AppendProperties DEF Types
  <1>9. Encoded(m) \in Seq(Items)
    BY <1>7, EncodedOf
  <1>10. Types'
    <2>1. stream' \in Seq(Items)
      BY <1>3, <1>5, <1>9, ConcatProperties DEF Types
    <2>2. Len(answers') <= Len(messages')
      BY <1>4, <1>5, <1>6, <1>8 DEF Types
    <2> QED BY <1>4, <1>5, <1>8, <2>1, <2>2 DEF Types
  <1>11. \A i \in 1..Len(answers) : i \in 1..Len(messages) /\ messages'[i] = messages[i]
    BY <1>5, <1>6, <1>8 DEF Types
  <1>12. Len(answers) < Len(messages) => Current' = Current
    BY <1>4, <1>6, <1>8 DEF Current
  <1>13. Begun'
    <2>1. CASE phase \in {"headers", "body", "handle"}
      <3>1. Len(answers) < Len(messages) /\ Current' = Current
        BY <1>12, <2>1 DEF ConnectionInv, Begun
      <3>2. Len(answers') < Len(messages')
        BY <1>4, <1>6, <1>8, <3>1
      <3> QED BY <1>4, <2>1, <3>1, <3>2 DEF ConnectionInv, Begun
    <2>2. CASE phase \notin {"headers", "body", "handle"}
      BY <1>4, <2>2 DEF ConnectionInv, Begun
    <2> QED BY <2>1, <2>2
  <1>14. Position'
    <2> SUFFICES ASSUME phase # "closed"
                 PROVE  Framed(stream', messages', Len(answers'), ItemsRead', hung')
      BY <1>4 DEF Position
    <2>1. ItemsRead' = ItemsRead /\ ItemsRead \in Nat
      <3>1. CASE phase = "handle"
        <4>1. Current' = Current
          BY <1>12, <3>1 DEF ConnectionInv, Begun
        <4> QED BY <1>4, <3>1, <4>1, ItemsReadType DEF ItemsRead
      <3>2. CASE phase # "handle"
        BY <1>4, <1>5, <3>2, ItemsReadType DEF ItemsRead, Types
      <3> QED BY <3>1, <3>2
    <2>2. Framed(stream, messages, Len(answers), ItemsRead, FALSE)
      BY <1>4 DEF ConnectionInv, Position
    <2>3. Len(answers) \in 0..Len(messages)
      BY <1>5, <1>6 DEF Types
    <2>4. Framed(stream \o Encoded(m), Append(messages, m), Len(answers), ItemsRead, FALSE)
      BY <1>5, <1>7, <2>1, <2>2, <2>3, SendFramed DEF Types
    <2> QED BY <1>3, <1>4, <2>1, <2>4
  <1>15. \A i \in 1..Len(answers) : Proves(i)' = Proves(i)
    BY <1>4, <1>11 DEF Proves
  <1>16. Served' /\ AnswersMatch'
    BY <1>4, <1>11 DEF ConnectionInv, Served, AnswersMatch
  <1>17. Gate'
    BY <1>4, <1>15 DEF ConnectionInv, Gate
  <1>18. DeniedUntilProven'
    <2> SUFFICES ASSUME NEW i \in 1..Len(answers)
                 PROVE  (answers[i].status = "401")
                            <=> (protected /\ ~ \E j \in 1..i : Proves(j)')
      BY <1>4 DEF DeniedUntilProven
    <2>1. \A j \in 1..i : j \in 1..Len(answers)
      BY <1>6
    <2> QED BY <1>15, <2>1 DEF ConnectionInv, DeniedUntilProven
  <1> QED BY <1>10, <1>13, <1>14, <1>16, <1>17, <1>18 DEF ConnectionInv

LEMMA HangUpInv == ASSUME ConnectionInv, HangUp PROVE ConnectionInv'
  <1>1. PICK c \in 0..Len(stream) :
           \/ stream' = SubSeq(stream, 1, c)
           \/ c < Len(stream) /\ stream' = Append(SubSeq(stream, 1, c), Garbage)
    BY DEF HangUp
  <1>2. /\ protected' = protected /\ conn' = conn /\ messages' = messages /\ hung' = TRUE
        /\ phase' = phase /\ request' = request /\ authorized' = authorized
        /\ nonce' = nonce /\ answers' = answers
    BY DEF HangUp, senderVars, sessionVars
  <1>3. Types
    BY DEF ConnectionInv
  <1>4. Len(answers) \in 0..Len(messages)
    BY <1>3, LenProperties DEF Types
  <1>5. ItemsRead' = ItemsRead
    BY <1>2 DEF ItemsRead, Current
  <1>6. CASE phase = "closed"
    <2>1. stream' \in Seq(Items)
      <3>1. c \in Nat /\ \A i \in 1..c : stream[i] \in Items
        BY <1>3, ElementOfSeq, LenProperties DEF Types
      <3>2. SubSeq(stream, 1, c) \in Seq(Items)
        BY <3>1, SubSeqProperties
      <3>3. Append(SubSeq(stream, 1, c), Garbage) \in Seq(Items)
        BY <3>2, ItemKinds, AppendProperties
      <3> QED BY <1>1, <3>2, <3>3
    <2>2. Types'
      BY <1>2, <1>3, <2>1 DEF Types
    <2> QED BY <1>2, <1>6, <2>2, ClosedInv
  <1>7. CASE phase # "closed"
    <2>1. ItemsRead \in Nat
      BY ItemsReadType
    <2>2. Framed(stream, messages, Len(answers), ItemsRead, hung)
      BY <1>7 DEF ConnectionInv, Position
    <2>3. stream' \in Seq(Items) /\ Framed(stream', messages, Len(answers), ItemsRead, TRUE)
      BY <1>1, <1>3, <1>4, <2>1, <2>2, CutFramed DEF Types
    <2>4. Types'
      BY <1>2, <1>3, <2>3 DEF Types
    <2>5. Position'
      BY <1>2, <1>5, <2>3 DEF Position
    <2>6. Begun'
      BY <1>2 DEF ConnectionInv, Begun, Current
    <2> QED BY <1>2, <1>7, <2>4, <2>5, <2>6, ReadInv
  <1> QED BY <1>6, <1>7

------------------------------------------------------------------------------
(* The reader. *)

\* What the reader finds next, and where it then is.
LEMMA TakeStep ==
    ASSUME ConnectionInv, Take, phase # "closed"
    PROVE  /\ Types /\ stream' \in Seq(Items) /\ Len(answers) \in 0..Len(messages)
           /\ protected' = protected /\ conn' = conn /\ messages' = messages
           /\ hung' = hung /\ authorized' = authorized /\ nonce' = nonce /\ answers' = answers
           /\ ItemsRead = 0 => Len(answers) < Len(messages)
           /\ Len(answers) < Len(messages) /\ ItemsRead < Len(Encoded(Current)) =>
                 Head(stream) \in {Encoded(Current)[ItemsRead + 1], Garbage}
           /\ Framed(stream', messages, Len(answers), ItemsRead + 1, hung)
  <1>1. /\ stream # <<>> /\ stream' = Tail(stream)
        /\ protected' = protected /\ conn' = conn /\ messages' = messages
        /\ hung' = hung /\ authorized' = authorized /\ nonce' = nonce /\ answers' = answers
    BY DEF Take, senderVars, sessionVars
  <1>2. Types
    BY DEF ConnectionInv
  <1>3. stream \in Seq(Items) /\ messages \in Seq(Messages) /\ hung \in BOOLEAN
    BY <1>2 DEF Types
  <1>4. Len(answers) \in 0..Len(messages)
    BY <1>2, LenProperties DEF Types
  <1>5. Framed(stream, messages, Len(answers), ItemsRead, hung)
    BY DEF ConnectionInv, Position
  <1>6. ItemsRead \in Nat
    BY ItemsReadType
  <1>7. stream' \in Seq(Items)
    BY <1>1, <1>3, HeadTailProperties
  <1>8. Framed(stream', messages, Len(answers), ItemsRead + 1, hung)
    BY <1>1, <1>3, <1>4, <1>5, <1>6, TakeFramed
  <1>9. /\ ItemsRead = 0 => Len(answers) < Len(messages)
        /\ Len(answers) < Len(messages) /\ ItemsRead < Len(Encoded(Current)) =>
                 Head(stream) \in {Encoded(Current)[ItemsRead + 1], Garbage}
    BY <1>1, <1>3, <1>4, <1>5, <1>6, HeadIsNext DEF Current
  <1> QED BY <1>1, <1>2, <1>4, <1>7, <1>8, <1>9

\* The reader closes the connection, at the end or at what it does not take.
LEMMA CloseInv ==
    ASSUME ConnectionInv, Take \/ AtEnd, Close, phase # "closed"
    PROVE  ConnectionInv'
  <1>1. phase' = "closed" /\ request' = request
    BY DEF Close
  <1>2. CASE Take
    <2>1. Types'
      BY <1>1, <1>2, TakeStep DEF Types
    <2> QED BY <1>1, <1>2, <2>1, TakeStep, ClosedInv
  <1>3. CASE AtEnd
    <2>1. /\ protected' = protected /\ conn' = conn /\ messages' = messages /\ stream' = stream
          /\ hung' = hung /\ authorized' = authorized /\ nonce' = nonce /\ answers' = answers
      BY <1>3 DEF AtEnd, senderVars, sessionVars
    <2>2. Types'
      BY <1>1, <2>1 DEF Types, ConnectionInv
    <2> QED BY <1>1, <2>1, <2>2, ClosedInv
  <1> QED BY <1>2, <1>3

LEMMA RequestLineInv == ASSUME ConnectionInv, ReadRequestLine PROVE ConnectionInv'
  <1>1. phase = "line"
    BY DEF ReadRequestLine
  <1>2. CASE AtEnd /\ Close
    BY <1>1, <1>2, CloseInv
  <1>3. CASE Take /\ Head(stream).line # "request"
    BY <1>1, <1>3, CloseInv DEF ReadRequestLine, AtEnd, Take
  <1>4. CASE Take /\ Head(stream).line = "request"
    <2>1. /\ phase' = "headers" /\ request' = [Idle EXCEPT !.method = Head(stream).method]
      BY <1>1, <1>4 DEF ReadRequestLine, AtEnd, Take
    <2>2. ItemsRead = 0
      BY <1>1 DEF ItemsRead
    <2>3. Types /\ Len(answers) < Len(messages)
      BY <1>1, <1>4, <2>2, TakeStep
    <2>4. Current \in Messages /\ Len(Encoded(Current)) \in Nat \ {0}
      BY <2>3, CurrentMessage, EncodedOf
    <2>5. Head(stream) \in {Encoded(Current)[1], Garbage}
      BY <1>1, <1>4, <2>2, <2>3, <2>4, TakeStep
    <2>6. Head(stream) = Encoded(Current)[1] /\ Readable(Current)
      <3>1. Head(stream) # Garbage /\ Head(stream) # Blank
        BY <1>4, ItemKinds
      <3> QED BY <2>4, <2>5, <3>1, EncodedOf DEF Readable
    <2>7. Head(stream) = RequestLine(Current.method) /\ Current.method \in Methods
      BY <2>4, <2>6, EncodedOf DEF Messages
    <2>8. request' = [method |-> Current.method, headers |-> <<>>, body |-> 0]
      BY <2>1, <2>7, ItemKinds DEF Idle
    <2>9. request' \in Requests
      <3>1. <<>> \in Seq(HeaderItems)
        BY EmptySeq
      <3> QED BY <2>7, <2>8, <3>1 DEF Requests
    <2>10. Types'
      BY <1>1, <1>4, <2>1, <2>9, TakeStep DEF Types
    <2>11. /\ request'.headers = <<>> /\ request'.body = 0 /\ request'.method = Current.method
           /\ Current' = Current /\ Len(<<>>) = 0 /\ 1..0 = {}
      BY <1>1, <1>4, <2>8, TakeStep DEF Current
    <2>12. Len(Headers(Current)) \in Nat
      BY <2>4, HeadersOf
    <2>13. Begun'
      <3>1. Len(answers') < Len(messages')
        BY <1>1, <1>4, <2>3, TakeStep
      <3>2. Readable(Current') /\ request'.method = Current'.method
        BY <2>6, <2>11
      <3>3. /\ request'.body = 0
            /\ Len(request'.headers) <= Len(Headers(Current'))
            /\ Len(request'.headers) <= MaxHeaders
            /\ \A i \in 1..Len(request'.headers) : request'.headers[i] = Headers(Current')[i]
        BY <2>11, <2>12, ConnectionAssumption
      <3> QED BY <2>1, <3>1, <3>2, <3>3 DEF Begun
    <2>14. Position'
      <3>1. ItemsRead' = 0 + 1
        BY <2>1, <2>11 DEF ItemsRead
      <3> QED BY <1>1, <1>4, <2>2, <3>1, TakeStep DEF Position
    <2> QED BY <1>1, <1>4, <2>10, <2>13, <2>14, TakeStep, ReadInv
  <1> QED BY <1>2, <1>3, <1>4 DEF ReadRequestLine

\* What Content-Length says of a message whose headers end well.
LEMMA LengthStated ==
    ASSUME NEW m \in Messages
    PROVE  BodyLength(Headers(m)) = IF m.length > 0 THEN Stated(m) ELSE 0
  <1>1. get(Headers(m), "Content-Length") = IF m.length > 0 THEN <<Stated(m)>> ELSE <<>>
    BY HeadersOf
  <1>2. <<Stated(m)>> # <<>> /\ <<Stated(m)>>[1] = Stated(m)
    OBVIOUS
  <1> QED BY <1>1, <1>2 DEF BodyLength

\* Where the reader is in the headers, and what may follow.
LEMMA HeaderAhead ==
    ASSUME ConnectionInv, Take, phase = "headers"
    PROVE  LET h == Len(request.headers)
               L == Len(Headers(Current))
           IN  /\ Types /\ Current \in Messages /\ Readable(Current)
               /\ h \in Nat /\ L \in Nat /\ h <= L /\ h <= MaxHeaders
               /\ Len(answers) < Len(messages)
               /\ ItemsRead = h + 1
               /\ request.headers \in Seq(HeaderItems) /\ Headers(Current) \in Seq(HeaderItems)
               /\ Head(stream) # Garbage => Head(stream) = Encoded(Current)[h + 2]
               /\ h < L => Encoded(Current)[h + 2] = Headers(Current)[h + 1]
               /\ h < L => Headers(Current)[h + 1] \in HeaderItems
  <1> DEFINE h == Len(request.headers)
             L == Len(Headers(Current))
  <1>1. Types
    BY DEF ConnectionInv
  <1>2. /\ Len(answers) < Len(messages) /\ Readable(Current)
        /\ h <= L /\ h <= MaxHeaders
    BY DEF ConnectionInv, Begun
  <1>3. Current \in Messages
    BY <1>1, <1>2, CurrentMessage
  <1>4. /\ request.headers \in Seq(HeaderItems) /\ h \in Nat
        /\ Headers(Current) \in Seq(HeaderItems) /\ L \in Nat
    <2>1. request.headers \in Seq(HeaderItems)
      BY <1>1 DEF Types, Requests
    <2> QED BY <1>3, <2>1, HeadersOf, LenProperties
  <1>5. ItemsRead = h + 1
    BY <1>4 DEF ItemsRead
  <1>6. /\ Len(Encoded(Current)) \in Nat /\ Len(Encoded(Current)) >= L + 2
        /\ \A i \in 1..L : Encoded(Current)[i + 1] = Headers(Current)[i]
    BY <1>2, <1>3, EncodedOf
  <1>7. Head(stream) \in {Encoded(Current)[ItemsRead + 1], Garbage}
    <2>1. ItemsRead < Len(Encoded(Current))
      BY <1>2, <1>4, <1>5, <1>6
    <2> QED BY <1>2, <2>1, TakeStep
  <1>8. ItemsRead + 1 = h + 2
    BY <1>4, <1>5
  <1>9. ASSUME h < L
        PROVE  /\ Encoded(Current)[h + 2] = Headers(Current)[h + 1]
               /\ Headers(Current)[h + 1] \in HeaderItems
    <2>1. h + 1 \in 1..L /\ (h + 1) + 1 = h + 2
      BY <1>4, <1>9
    <2>2. Headers(Current)[h + 1] \in HeaderItems
      BY <1>4, <2>1, ElementOfSeq
    <2>3. Encoded(Current)[(h + 1) + 1] = Headers(Current)[h + 1]
      BY <1>6, <2>1
    <2> QED BY <2>1, <2>2, <2>3
  <1> QED BY <1>1, <1>2, <1>3, <1>4, <1>5, <1>7, <1>8, <1>9

LEMMA HeadersEndInv ==
    ASSUME ConnectionInv, phase = "headers", Take, Head(stream) = Blank, HeadersEnd
    PROVE  ConnectionInv'
  <1> DEFINE h == Len(request.headers)
             L == Len(Headers(Current))
             length == BodyLength(request.headers)
  <1>1. /\ Types /\ Current \in Messages /\ Readable(Current)
        /\ h \in Nat /\ L \in Nat /\ h <= L /\ h <= MaxHeaders
        /\ Len(answers) < Len(messages) /\ ItemsRead = h + 1
        /\ request.headers \in Seq(HeaderItems) /\ Headers(Current) \in Seq(HeaderItems)
    BY HeaderAhead
  <1>2. Blank = Encoded(Current)[h + 2]
    BY ItemKinds, HeaderAhead
  <1>3. h = L
    <2>1. CASE h < L
      <3>1. Blank \in HeaderItems
        BY <1>2, <2>1, HeaderAhead
      <3> QED BY <3>1, ItemKinds
    <2> QED BY <1>1, <2>1
  <1>4. Current.flaw \in {"none", "length"}
    <2>1. Current.flaw # "header"
      <3>1. SUFFICES ASSUME Current.flaw = "header" PROVE FALSE
        OBVIOUS
      <3>2. Encoded(Current)[L + 2] = Garbage
        BY <1>1, <3>1, EncodedOf
      <3>3. Encoded(Current)[L + 2] = Blank
        BY <1>2, <1>3
      <3> QED BY <3>2, <3>3, ItemKinds
    <2>2. Current.flaw # "headers"
      BY <1>1, <1>3, HeadersOf, ConnectionAssumption
    <2> QED BY <1>1, <2>1, <2>2 DEF Messages, Flaws, Readable
  <1>5. request.headers = Headers(Current)
    <2>1. \A i \in 1..h : request.headers[i] = Headers(Current)[i]
      BY DEF ConnectionInv, Begun
    <2> QED BY <1>1, <1>3, <2>1, SeqEqual
  <1>6. length = IF Current.length > 0 THEN Stated(Current) ELSE 0
    BY <1>1, <1>5, LengthStated
  <1>7. Current.length \in Nat /\ (Current.flaw = "length" => Current.length > 0)
    BY <1>1 DEF Messages
  <1>8. CASE length = -1 \/ TooLarge(length)
    BY <1>8, CloseInv DEF HeadersEnd
  <1>9. CASE ~ (length = -1 \/ TooLarge(length))
    <2>1. Current.flaw = "none"
      <3>1. Current.flaw # "length"
        BY <1>6, <1>7, <1>9 DEF Stated
      <3> QED BY <1>4, <3>1
    <2>2. length = Current.length /\ length <= MaxBody
      <3>1. length = Current.length
        BY <1>6, <1>7, <2>1 DEF Stated
      <3>2. ~ (length > MaxBody)
        BY <1>9 DEF TooLarge
      <3> QED BY <1>7, <3>1, <3>2, ConnectionAssumption
    <2>3. WellFormed(Current)
      BY <1>1, <1>3, <2>1, <2>2 DEF WellFormed
    <2>4. /\ phase' = (IF length = 0 THEN "handle" ELSE "body") /\ request' = request
      BY <1>9 DEF HeadersEnd
    <2>5. /\ messages' = messages /\ answers' = answers /\ hung' = hung /\ Current' = Current
          /\ Framed(stream', messages, Len(answers), h + 2, hung)
      <3>1. ItemsRead + 1 = h + 2
        BY <1>1
      <3> QED BY <3>1, TakeStep DEF Current
    <2>6. Types'
      BY <2>4, TakeStep DEF Types
    <2>7. request.body = 0 /\ request.method = Current.method
      BY DEF ConnectionInv, Begun
    <2>8. request = [method |-> Current.method, headers |-> Headers(Current), body |-> 0]
      BY <1>1, <1>5, <2>7 DEF Types, Requests
    <2>9. Len(Encoded(Current)) = L + 2 + Current.length
      BY <1>1, <2>1, EncodedOf
    <2>10. CASE length = 0
      <3>1. phase' = "handle"
        BY <2>4, <2>10
      <3>2. ItemsRead' = h + 2
        BY <1>1, <1>3, <2>2, <2>5, <2>9, <2>10, <3>1 DEF ItemsRead
      <3>3. Position'
        BY <2>5, <3>2 DEF Position
      <3>4. Begun'
        BY <1>1, <2>2, <2>3, <2>4, <2>5, <2>7, <2>8, <2>10, <3>1 DEF Begun
      <3> QED BY <2>6, <3>3, <3>4, TakeStep, ReadInv
    <2>11. CASE length # 0
      <3>1. phase' = "body"
        BY <2>4, <2>11
      <3>2. ItemsRead' = h + 2
        BY <1>1, <2>4, <2>7, <3>1 DEF ItemsRead
      <3>3. Position'
        BY <2>5, <3>2 DEF Position
      <3>4. request.body < Current.length
        BY <1>7, <2>2, <2>7, <2>11
      <3>5. Begun'
        BY <1>1, <1>5, <2>3, <2>4, <2>5, <2>7, <3>1, <3>4 DEF Begun
      <3> QED BY <2>6, <3>3, <3>5, TakeStep, ReadInv
    <2> QED BY <2>10, <2>11
  <1> QED BY <1>8, <1>9

LEMMA HeaderInv ==
    ASSUME ConnectionInv, phase = "headers", Take,
           Head(stream).line = "header", Len(request.headers) < MaxHeaders,
           request' = [request EXCEPT !.headers = Append(@, Head(stream))], phase' = phase
    PROVE  ConnectionInv'
  <1> DEFINE h == Len(request.headers)
             L == Len(Headers(Current))
  <1>1. /\ Types /\ Current \in Messages /\ Readable(Current)
        /\ h \in Nat /\ L \in Nat /\ h <= L /\ h <= MaxHeaders
        /\ Len(answers) < Len(messages) /\ ItemsRead = h + 1
        /\ request.headers \in Seq(HeaderItems)
    BY HeaderAhead
  <1>2. Head(stream) = Encoded(Current)[h + 2]
    BY ItemKinds, HeaderAhead
  <1>3. h < L
    <2>1. CASE h = L
      <3>1. Encoded(Current)[L + 2] \in {Garbage, Blank}
        BY <1>1, EncodedOf
      <3> QED BY <1>2, <2>1, <3>1, ItemKinds
    <2> QED BY <1>1, <2>1
  <1>4. Head(stream) = Headers(Current)[h + 1] /\ Head(stream) \in HeaderItems
    BY <1>2, <1>3, HeaderAhead
  <1> DEFINE headers == Append(request.headers, Head(stream))
  <1>5. /\ headers \in Seq(HeaderItems) /\ Len(headers) = h + 1 /\ headers[h + 1] = Head(stream)
        /\ \A i \in 1..h : headers[i] = request.headers[i]
    BY <1>1, <1>4, AppendProperties
  <1> HIDE DEF headers
  <1>6. /\ request'.headers = headers /\ request'.body = request.body
        /\ request'.method = request.method /\ request' \in Requests
    <2>1. request' = [request EXCEPT !.headers = headers]
      BY DEF headers
    <2> QED BY <1>1, <1>5, <2>1 DEF Types, Requests
  <1>7. /\ messages' = messages /\ answers' = answers /\ hung' = hung /\ Current' = Current
        /\ Framed(stream', messages, Len(answers), h + 2, hung)
    <2>1. ItemsRead + 1 = h + 2
      BY <1>1
    <2> QED BY <2>1, TakeStep DEF Current
  <1>8. Types'
    BY <1>6, TakeStep DEF Types
  <1>9. Position'
    <2>1. ItemsRead' = h + 2
      BY <1>1, <1>5, <1>6 DEF ItemsRead
    <2> QED BY <1>7, <2>1 DEF Position
  <1>10. Begun'
    <2>1. \A i \in 1..h : request.headers[i] = Headers(Current)[i]
      BY DEF ConnectionInv, Begun
    <2>2. ASSUME NEW i \in 1..(h + 1) PROVE headers[i] = Headers(Current)[i]
      <3>1. i = h + 1 \/ i \in 1..h
        BY <1>1
      <3> QED BY <1>4, <1>5, <2>1, <3>1
    <2>3. request.body = 0 /\ request.method = Current.method
      BY DEF ConnectionInv, Begun
    <2>4. Len(headers) <= L /\ Len(headers) <= MaxHeaders
      BY <1>1, <1>3, <1>5, ConnectionAssumption
    <2>5. \A i \in 1..Len(headers) : headers[i] = Headers(Current)[i]
      BY <1>5, <2>2
    <2> QED BY <1>1, <1>6, <1>7, <2>3, <2>4, <2>5 DEF Begun
  <1> QED BY <1>8, <1>9, <1>10, TakeStep, ReadInv

LEMMA ReadHeaderInv == ASSUME ConnectionInv, ReadHeader PROVE ConnectionInv'
  <1>1. phase = "headers"
    BY DEF ReadHeader
  <1>2. CASE AtEnd /\ Close
    BY <1>1, <1>2, CloseInv
  <1>3. CASE Take /\ Head(stream) = Blank
    <2>1. HeadersEnd
      <3>1. ~ AtEnd /\ Head(stream).line # "header"
        BY <1>3, ItemKinds DEF AtEnd, Take
      <3> QED BY <1>3, <3>1 DEF ReadHeader
    <2> QED BY <1>1, <1>3, <2>1, HeadersEndInv
  <1>4. CASE /\ Take /\ Head(stream) # Blank
             /\ Head(stream).line = "header" /\ Len(request.headers) < MaxHeaders
    <2>1. /\ request' = [request EXCEPT !.headers = Append(@, Head(stream))]
          /\ phase' = phase
      BY <1>4 DEF ReadHeader, AtEnd, Take
    <2> QED BY <1>1, <1>4, <2>1, HeaderInv
  <1>5. CASE /\ Take /\ Head(stream) # Blank
             /\ ~ (Head(stream).line = "header" /\ Len(request.headers) < MaxHeaders)
    <2>1. Close
      BY <1>5 DEF ReadHeader, AtEnd, Take
    <2> QED BY <1>1, <1>5, <2>1, CloseInv
  <1> QED BY <1>2, <1>3, <1>4, <1>5 DEF ReadHeader

LEMMA ReadBodyInv == ASSUME ConnectionInv, ReadBody PROVE ConnectionInv'
  <1>1. phase = "body"
    BY DEF ReadBody
  <1>2. CASE AtEnd /\ Close
    BY <1>1, <1>2, CloseInv
  <1>3. CASE Take
    <2>1. /\ request' = [request EXCEPT !.body = @ + 1]
          /\ phase' = IF BodyComplete(request.body + 1) THEN "handle" ELSE "body"
      BY <1>3 DEF ReadBody, AtEnd, Take
    <2>2. /\ Types /\ Len(answers) < Len(messages) /\ Readable(Current)
          /\ request.method = Current.method
          /\ request.headers = Headers(Current)
          /\ WellFormed(Current) /\ request.body < Current.length
      BY <1>1 DEF ConnectionInv, Begun
    <2>3. Current \in Messages /\ Current.length \in Nat
      BY <2>2, CurrentMessage DEF Messages
    <2>4. request.body \in Nat /\ request \in Requests
      BY <2>2 DEF Types, Requests
    <2>5. /\ request'.method = request.method /\ request'.headers = request.headers
          /\ request'.body = request.body + 1 /\ request' \in Requests
      BY <2>1, <2>4 DEF Requests
    <2> DEFINE L == Len(Headers(Current))
    <2>6. L \in Nat /\ Len(Encoded(Current)) = L + 2 + Current.length
      BY <2>2, <2>3, HeadersOf, EncodedOf DEF WellFormed
    <2>7. /\ messages' = messages /\ answers' = answers /\ hung' = hung /\ Current' = Current
          /\ Framed(stream', messages, Len(answers), L + 2 + (request.body + 1), hung)
      <3>1. ItemsRead + 1 = L + 2 + (request.body + 1)
        BY <1>1, <2>2, <2>4, <2>6 DEF ItemsRead
      <3> QED BY <1>1, <1>3, <3>1, TakeStep DEF Current
    <2>8. Types'
      BY <1>1, <1>3, <2>1, <2>5, TakeStep DEF Types
    <2>9. BodyLength(request.headers) = Current.length
      BY <2>2, <2>3, <2>4, LengthStated DEF WellFormed, Stated
    <2>10. CASE request.body + 1 = Current.length
      <3>1. phase' = "handle"
        BY <2>1, <2>9, <2>10 DEF BodyComplete
      <3>2. Position'
        <4>1. ItemsRead' = L + 2 + (request.body + 1)
          BY <2>6, <2>7, <2>10, <3>1 DEF ItemsRead
        <4> QED BY <2>7, <4>1 DEF Position
      <3>3. request' = [method |-> Current.method, headers |-> Headers(Current),
                        body |-> Current.length]
        BY <2>2, <2>5, <2>10 DEF Requests
      <3>4. Begun'
        BY <2>2, <2>5, <2>7, <3>1, <3>3 DEF Begun
      <3> QED BY <1>1, <1>3, <2>8, <3>2, <3>4, TakeStep, ReadInv
    <2>11. CASE request.body + 1 # Current.length
      <3>1. phase' = "body"
        BY <2>1, <2>9, <2>11 DEF BodyComplete
      <3>2. Position'
        <4>1. ItemsRead' = L + 2 + (request.body + 1)
          BY <2>2, <2>4, <2>5, <2>6, <3>1 DEF ItemsRead
        <4> QED BY <2>7, <4>1 DEF Position
      <3>3. request.body + 1 < Current.length
        BY <2>2, <2>3, <2>4, <2>11
      <3>4. Begun'
        BY <2>2, <2>5, <2>7, <3>1, <3>3 DEF Begun
      <3> QED BY <1>1, <1>3, <2>8, <3>2, <3>4, TakeStep, ReadInv
    <2> QED BY <2>10, <2>11
  <1> QED BY <1>2, <1>3 DEF ReadBody

------------------------------------------------------------------------------
(* The answer. *)

LEMMA ResponseOf ==
    ASSUME ConnectionInv, phase = "handle"
    PROVE  /\ Response \in Records
           /\ Response.cseq = <<Current.cseq>>
           /\ Response.signed = IF Current.challenge = "good" THEN <<"good">> ELSE <<>>
           /\ (Response.status = "401") <=> ~ Passes
           /\ Passes <=> \/ authorized \/ ~ protected
                         \/ Current.auth = digest_response("right", Current.method, nonce)
  <1>1. /\ Types /\ Current \in Messages
        /\ request.method = Current.method /\ request.headers = Headers(Current)
    BY CurrentMessage DEF ConnectionInv, Begun
  <1>2. /\ Current.cseq \in Nat /\ Current.challenge \in {"none", "good", "bad"}
    BY <1>1 DEF Messages
  <1>3. get(request.headers, "CSeq") = <<Current.cseq>>
    BY <1>1, HeadersOf
  <1>4. Signature(get(request.headers, "Apple-Challenge"))
            = IF Current.challenge = "good" THEN <<"good">> ELSE <<>>
    <2>1. get(request.headers, "Apple-Challenge")
              = IF Current.challenge # "none" THEN <<Current.challenge>> ELSE <<>>
      BY <1>1, HeadersOf
    <2>2. <<"good">> # <<"bad">> /\ <<"good">> # <<>>
      OBVIOUS
    <2> QED BY <1>2, <2>1, <2>2 DEF Signature
  <1>5. Passes <=> \/ authorized \/ ~ protected
                   \/ Current.auth = digest_response("right", Current.method, nonce)
    <2> DEFINE d == digest_response("right", Current.method, nonce)
    <2>1. get(request.headers, "Authorization")
              = IF Current.auth # <<>> THEN <<Current.auth>> ELSE <<>>
      BY <1>1, HeadersOf
    <2>2. d # <<>>
      BY DEF digest_response
    <2> HIDE DEF d
    <2>3. \A x : <<x>> # <<>> /\ (<<x>> = <<d>> <=> x = d)
      OBVIOUS
    <2>4. get(request.headers, "Authorization") = <<d>> <=> Current.auth = d
      BY <2>1, <2>2, <2>3
    <2> QED BY <1>1, <2>4 DEF Passes, d
  <1>6. /\ Response.cseq = <<Current.cseq>>
        /\ Response.signed = IF Current.challenge = "good" THEN <<"good">> ELSE <<>>
    BY <1>3, <1>4 DEF Response, Common
  <1>7. (Response.status = "401") <=> ~ Passes
    BY DEF Response
  <1>8. Response \in Records
    <2>1. Response.status \in {"401", "handled", "501"}
      BY DEF Response
    <2>2. Response.nonce \in Nat
      BY <1>1 DEF Response, Challenged, Types
    <2>3. /\ Response.cseq \in {<<n>> : n \in Nat}
          /\ Response.signed \in {<<>>, <<"good">>}
      BY <1>2, <1>6
    <2>4. Response = [status |-> Response.status, nonce |-> Response.nonce,
                      cseq |-> Response.cseq, signed |-> Response.signed]
      BY DEF Response
    <2> QED BY <2>1, <2>2, <2>3, <2>4 DEF Records
  <1> QED BY <1>5, <1>6, <1>7, <1>8

LEMMA HandleInv == ASSUME ConnectionInv, Handle PROVE ConnectionInv'
  <1> PICK n \in Nat : n = Len(answers)
    BY LenProperties DEF ConnectionInv, Types
  <1>1. /\ phase = "handle" /\ request' = Idle
        /\ authorized' = Passes /\ nonce' = IF Passes THEN nonce ELSE Challenged
        /\ protected' = protected /\ conn' = conn /\ messages' = messages
        /\ stream' = stream /\ hung' = hung
    BY DEF Handle, senderVars
  <1>2. /\ Types /\ n < Len(messages) /\ WellFormed(Current) /\ Current \in Messages
        /\ n \in 0..(Len(messages) - 1) /\ n \in Nat /\ Len(messages) \in Nat
    BY <1>1, CurrentMessage, LenProperties DEF ConnectionInv, Begun, Types
  <1>3. Idle \in Requests
    <2>1. <<>> \in Seq(HeaderItems)
      BY EmptySeq
    <2> QED BY <2>1 DEF Idle, Requests
  <1>4. /\ authorized' \in BOOLEAN /\ nonce' \in Nat
    <2>1. Passes \in BOOLEAN
      BY <1>2 DEF Passes, Types
    <2>2. nonce' = nonce \/ nonce' = conn
      BY <1>1 DEF Challenged
    <2> QED BY <1>1, <1>2, <2>1, <2>2 DEF Types
  <1>5. CASE phase' = "closed" /\ answers' = answers
    <2>1. Types'
      BY <1>1, <1>2, <1>3, <1>4, <1>5 DEF Types
    <2> QED BY <1>1, <1>5, <2>1, ClosedInv
  <1>6. CASE phase' = "line" /\ answers' = Append(answers, Response)
    <2>1. /\ Response \in Records
          /\ Response.cseq = <<Current.cseq>>
          /\ Response.signed = IF Current.challenge = "good" THEN <<"good">> ELSE <<>>
          /\ (Response.status = "401") <=> ~ Passes
          /\ Passes <=> \/ authorized \/ ~ protected
                        \/ Current.auth = digest_response("right", Current.method, nonce)
      BY <1>1, ResponseOf
    <2>2. /\ answers' \in Seq(Records) /\ Len(answers') = n + 1
          /\ answers'[n + 1] = Response
          /\ \A i \in 1..n : answers'[i] = answers[i]
      BY <1>2, <1>6, <2>1, AppendProperties DEF Types
    <2>3. Types'
      BY <1>1, <1>2, <1>3, <1>4, <1>6, <2>2 DEF Types
    <2>4. Begun'
      BY <1>1, <1>6 DEF Begun
    <2>5. Position'
      <3>1. ItemsRead = Len(Encoded(messages[n + 1])) /\ ItemsRead' = 0
        BY <1>1, <1>6 DEF ItemsRead, Current
      <3>2. Framed(stream, messages, n, Len(Encoded(messages[n + 1])), hung)
        BY <1>1, <3>1 DEF ConnectionInv, Position
      <3>3. Framed(stream, messages, n + 1, 0, hung)
        BY <1>2, <3>2, NextFramed DEF Types
      <3> QED BY <1>1, <2>2, <3>1, <3>3 DEF Position
    <2>6. \A i \in 1..(n + 1) : i \in 1..n \/ i = n + 1
      BY <1>2
    <2>7. Served'
      <3>1. \A i \in 1..(n + 1) : WellFormed(messages[i])
        BY <1>2, <2>6 DEF ConnectionInv, Served, Current
      <3> QED BY <1>1, <2>2, <3>1 DEF Served
    <2>8. AnswersMatch'
      <3>1. ASSUME NEW i \in 1..(n + 1)
            PROVE  /\ answers'[i].cseq = <<messages[i].cseq>>
                   /\ answers'[i].signed = IF messages[i].challenge = "good" THEN <<"good">> ELSE <<>>
        <4>1. CASE i \in 1..n
          BY <2>2, <4>1 DEF ConnectionInv, AnswersMatch
        <4>2. CASE i = n + 1
          BY <2>1, <2>2, <4>2 DEF Current
        <4> QED BY <2>6, <4>1, <4>2
      <3> QED BY <1>1, <2>2, <3>1 DEF AnswersMatch
    <2>9. ASSUME NEW i \in 1..n PROVE Proves(i)' = Proves(i)
      <3>1. \A j \in 1..(i - 1) : answers'[j] = answers[j]
        BY <1>2, <2>2
      <3> QED BY <1>1, <3>1 DEF Proves
    <2>10. /\ nonce = IF \E j \in 1..n : answers[j].status = "401" THEN conn ELSE 0
           /\ protected => (authorized <=> \E j \in 1..n : Proves(j))
      BY <1>1 DEF ConnectionInv, Gate
    <2>11. Proves(n + 1)' <=> Current.auth = digest_response("right", Current.method, nonce)
      <3>1. (n + 1) - 1 = n
        BY <1>2
      <3>2. (\E j \in 1..n : answers'[j].status = "401") <=> (\E j \in 1..n : answers[j].status = "401")
        BY <2>2
      <3>3. Proves(n + 1)' <=>
               messages'[n + 1].auth =
                   digest_response("right", messages'[n + 1].method,
                                   IF \E j \in 1..((n + 1) - 1) : answers'[j].status = "401"
                                   THEN conn' ELSE 0)
        BY DEF Proves
      <3>4. messages'[n + 1] = Current /\ conn' = conn
        BY <1>1 DEF Current
      <3>5. (IF \E j \in 1..((n + 1) - 1) : answers'[j].status = "401" THEN conn' ELSE 0) = nonce
        BY <2>10, <3>1, <3>2, <3>4
      <3> QED BY <3>3, <3>4, <3>5
    <2>12. protected => (Passes <=> \E j \in 1..(n + 1) : Proves(j)')
      <3>1. protected => (Passes <=> (\E j \in 1..n : Proves(j)) \/ Proves(n + 1)')
        BY <2>1, <2>10, <2>11
      <3>2. (\E j \in 1..(n + 1) : Proves(j)') <=> (\E j \in 1..n : Proves(j)) \/ Proves(n + 1)'
        <4>1. n + 1 \in 1..(n + 1) /\ \A j \in 1..n : j \in 1..(n + 1)
          BY <1>2
        <4>2. ASSUME NEW j \in 1..(n + 1), Proves(j)'
              PROVE  (\E i \in 1..n : Proves(i)) \/ Proves(n + 1)'
          <5>1. CASE j \in 1..n
            BY <2>9, <4>2, <5>1
          <5>2. CASE j = n + 1
            BY <4>2, <5>2
          <5> QED BY <2>6, <5>1, <5>2
        <4>3. ASSUME NEW i \in 1..n, Proves(i) PROVE \E j \in 1..(n + 1) : Proves(j)'
          BY <2>9, <4>1, <4>3
        <4> QED BY <4>1, <4>2, <4>3
      <3> QED BY <3>1, <3>2
    <2>13. DeniedUntilProven'
      <3>1. ASSUME NEW i \in 1..n
            PROVE  (answers'[i].status = "401")
                       <=> (protected /\ ~ \E j \in 1..i : Proves(j)')
        <4>1. \A j \in 1..i : j \in 1..n
          BY <1>2
        <4>2. (answers[i].status = "401") <=> (protected /\ ~ \E j \in 1..i : Proves(j))
          BY DEF ConnectionInv, DeniedUntilProven
        <4> QED BY <2>2, <2>9, <4>1, <4>2
      <3>2. (answers'[n + 1].status = "401")
                <=> (protected /\ ~ \E j \in 1..(n + 1) : Proves(j)')
        <4>1. ~ protected => Passes
          BY <2>1
        <4> QED BY <2>1, <2>2, <2>12, <4>1
      <3>3. ASSUME NEW i \in 1..(n + 1)
            PROVE  (answers'[i].status = "401")
                       <=> (protected' /\ ~ \E j \in 1..i : Proves(j)')
        BY <1>1, <2>6, <3>1, <3>2
      <3> QED BY <2>2, <3>3 DEF DeniedUntilProven
    <2>14. Gate'
      <3>1. nonce' = IF \E j \in 1..(n + 1) : answers'[j].status = "401" THEN conn ELSE 0
        <4>1. (\E j \in 1..(n + 1) : answers'[j].status = "401")
                  <=> (\E j \in 1..n : answers[j].status = "401") \/ ~ Passes
          <5>1. n + 1 \in 1..(n + 1) /\ \A j \in 1..n : j \in 1..(n + 1)
            BY <1>2
          <5> QED BY <2>1, <2>2, <2>6, <5>1
        <4>2. conn # 0
          BY <1>2 DEF Types
        <4> QED BY <1>1, <2>10, <4>1, <4>2 DEF Challenged
      <3> QED BY <1>1, <2>2, <2>12, <3>1 DEF Gate
    <2> QED BY <2>3, <2>4, <2>5, <2>7, <2>8, <2>13, <2>14 DEF ConnectionInv
  <1> QED BY <1>5, <1>6 DEF Handle

------------------------------------------------------------------------------
LEMMA NextInv == ConnectionInv /\ [Next]_vars => ConnectionInv'
  <1> SUFFICES ASSUME ConnectionInv, [Next]_vars PROVE ConnectionInv'
    OBVIOUS
  <1>1. CASE Send
    BY <1>1, SendInv
  <1>2. CASE HangUp
    BY <1>2, HangUpInv
  <1>3. CASE Reconnect
    BY <1>3, ReconnectInv
  <1>4. CASE ReadRequestLine
    BY <1>4, RequestLineInv
  <1>5. CASE ReadHeader
    BY <1>5, ReadHeaderInv
  <1>6. CASE ReadBody
    BY <1>6, ReadBodyInv
  <1>7. CASE Handle
    BY <1>7, HandleInv
  <1>8. CASE UNCHANGED vars
    <2>1. /\ protected' = protected /\ conn' = conn /\ messages' = messages /\ stream' = stream
          /\ hung' = hung /\ phase' = phase /\ request' = request /\ authorized' = authorized
          /\ nonce' = nonce /\ answers' = answers
      BY <1>8 DEF vars, senderVars, sessionVars
    <2>2. Types'
      BY <2>1 DEF ConnectionInv, Types
    <2>3. CASE phase = "closed"
      BY <2>1, <2>2, <2>3, ClosedInv
    <2>4. CASE phase # "closed"
      <3>1. Current' = Current /\ ItemsRead' = ItemsRead
        BY <2>1 DEF Current, ItemsRead
      <3>2. Position' /\ Begun'
        BY <2>1, <3>1 DEF ConnectionInv, Position, Begun
      <3> QED BY <2>1, <2>2, <2>4, <3>2, ReadInv
    <2> QED BY <2>3, <2>4
  <1> QED BY <1>1, <1>2, <1>3, <1>4, <1>5, <1>6, <1>7, <1>8 DEF Next, Server

\* The reader is where it thinks it is, and the session remembers what was
\* answered, in every behaviour of the connections.
THEOREM Invariant == Spec => []ConnectionInv
  BY InitInv, NextInv, PTL DEF Spec

\* What is handled is the next message, whole and alone, for messages of any
\* kind and number, however they are cut up, written ahead or broken off
\* (read_request and handle_connection).
THEOREM WholeTheorem == Spec => []WholeMessages
  <1>1. ConnectionInv => WholeMessages
    <2> SUFFICES ASSUME ConnectionInv, phase = "handle"
                 PROVE  LET n == Len(answers) + 1
                        IN  /\ n <= Len(messages)
                            /\ \A i \in 1..n : WellFormed(messages[i])
                            /\ request = [method |-> messages[n].method,
                                          headers |-> Headers(messages[n]),
                                          body |-> messages[n].length]
      BY DEF WholeMessages
    <2> DEFINE n == Len(answers) + 1
    <2>1. /\ Len(answers) < Len(messages) /\ WellFormed(messages[n])
          /\ request = [method |-> messages[n].method, headers |-> Headers(messages[n]),
                        body |-> messages[n].length]
      BY DEF ConnectionInv, Begun, Current
    <2>2. Len(answers) \in Nat /\ Len(messages) \in Nat
      BY LenProperties DEF ConnectionInv, Types
    <2>3. n <= Len(messages) /\ \A i \in 1..n : i \in 1..Len(answers) \/ i = n
      BY <2>1, <2>2
    <2>4. \A i \in 1..n : WellFormed(messages[i])
      BY <2>1, <2>3 DEF ConnectionInv, Served
    <2> QED BY <2>1, <2>3, <2>4
  <1> QED BY <1>1, Invariant, PTL

\* Each answer carries the CSeq and the signed challenge of the message at its
\* place, refusals too (dispatch).
THEOREM AnswersTheorem == Spec => []AnswersMatch
  <1>1. ConnectionInv => AnswersMatch
    BY DEF ConnectionInv
  <1> QED BY <1>1, Invariant, PTL

\* A message is refused exactly if a password is set and neither it nor one
\* before it on this connection proves to know it, by the challenge made on
\* this connection (authenticate and auth_challenge).
THEOREM DeniedTheorem == Spec => []DeniedUntilProven
  <1>1. ConnectionInv => DeniedUntilProven
    BY DEF ConnectionInv
  <1> QED BY <1>1, Invariant, PTL
===============================================================================
