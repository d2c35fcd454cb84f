---------------------------- MODULE DashboardProofs ----------------------------
(***************************************************************************)
(* What dashboards show, for any number of them, every set of messages and *)
(* every capacity of the channel: one that caught up agrees with the       *)
(* receiver.                                                               *)
(*                                                                         *)
(* A field is argued about on its own.  What counts is the last message on *)
(* its way that sets the field: wherever it is, it carries what the        *)
(* snapshot says, and when none is on its way the screen says it already.  *)
(* A lagging client owes nothing until its snapshot is in the socket, and  *)
(* nothing is known of a socket while a later message waits in the queue:  *)
(* there the snapshot may be the newer of the two.                         *)
(***************************************************************************)
EXTENDS Dashboard, TLAPS

\* Does the message decide the field, and what does the receiver then hold?
Sets(m, f) ==
    \/ m.type \in {"Snapshot", "SessionEnded", f}
    \/ m.type = "Flushed" /\ f = "progress"

Value(m, f) ==
    IF m.type = "Snapshot" THEN m.state[f]
    ELSE IF m.type \in Fields THEN m.value ELSE None

\* What a screen may show for y: a flush leaves the position, the end of a
\* session the volume.
Stays(f, x, y) == x = y \/ (f \in {"progress", "volume"} /\ y = None)

Silent(s, f) == \A i \in 1..Len(s) : ~ Sets(s[i], f)

LastToSet(s, i, f) == Sets(s[i], f) /\ \A j \in (i + 1)..Len(s) : ~ Sets(s[j], f)

\* The last message in s that sets f says v.
Carries(s, f, v) == \A i \in 1..Len(s) : LastToSet(s, i, f) => Value(s[i], f) = v

Unsent(f) == folded # None /\ Sets(folded, f)

Sent == Changes \cup Snapshots

Types ==
    /\ snapshot \in States
    /\ folded \in Changes \cup {None}
    /\ conn \in [Clients -> {"down", "subscribed", "up"}]
    /\ queue \in [Clients -> Seq(Changes)]
    /\ lagged \in [Clients -> BOOLEAN]
    /\ socket \in [Clients -> Seq(Sent)]
    /\ screen \in [Clients -> States]

FoldedIsNewest == \A f \in Fields : Unsent(f) => Value(folded, f) = snapshot[f]

QueueFollows(c, f) == ~ Unsent(f) => Carries(queue[c], f, snapshot[f])

ScreenFollows(c, f) ==
    (conn[c] = "up" /\ ~ lagged[c] /\ ~ Unsent(f) /\ Silent(queue[c], f)) =>
        /\ Carries(socket[c], f, snapshot[f])
        /\ Silent(socket[c], f) => Stays(f, screen[c][f], snapshot[f])

Follows == \A c \in Clients, f \in Fields : QueueFollows(c, f) /\ ScreenFollows(c, f)

DownIsEmpty == \A c \in Clients : conn[c] = "down" => queue[c] = <<>>

IInv == Types /\ FoldedIsNewest /\ DownIsEmpty /\ Follows

------------------------------------------------------------------------------
(* The two functions that fold, field by field. *)

LEMMA FoldedField ==
    ASSUME NEW m \in Changes, NEW s \in States
    PROVE  /\ Folded(s, m) \in States
           /\ \A f \in Fields : Folded(s, m)[f] = IF Sets(m, f) THEN Value(m, f) ELSE s[f]
  <1>1. CASE m.type \in Fields
    <2>1. m.value \in Values \cup {None}
      BY <1>1 DEF Changes, Fields
    <2>2. Folded(s, m) = [s EXCEPT ![m.type] = m.value]
      BY <1>1 DEF Folded, Fields
    <2>3. \A f \in Fields : Sets(m, f) <=> f = m.type
      BY <1>1 DEF Sets, Fields
    <2>4. \A f \in Fields : Value(m, f) = m.value
      BY <1>1 DEF Value, Fields
    <2> QED BY <1>1, <2>1, <2>2, <2>3, <2>4 DEF States
  <1>2. CASE m.type = "Flushed"
    <2>1. Folded(s, m) = [s EXCEPT !["progress"] = None]
      BY <1>2 DEF Folded, Fields
    <2>2. \A f \in Fields : (Sets(m, f) <=> f = "progress") /\ Value(m, f) = None
      BY <1>2 DEF Sets, Value, Fields
    <2> QED BY <2>1, <2>2 DEF States, Fields
  <1>3. CASE m.type = "SessionEnded"
    <2>1. Folded(s, m) = Blank
      BY <1>3 DEF Folded, Fields
    <2>2. \A f \in Fields : Sets(m, f) /\ Value(m, f) = None
      BY <1>3 DEF Sets, Value, Fields
    <2> QED BY <2>1, <2>2 DEF States, Blank
  <1> QED BY <1>1, <1>2, <1>3 DEF Changes

LEMMA ShownField ==
    ASSUME NEW m \in Sent, NEW s \in States
    PROVE  /\ Shown(s, m) \in States
           /\ \A f \in Fields :
                 IF Sets(m, f) THEN Stays(f, Shown(s, m)[f], Value(m, f))
                 ELSE Shown(s, m)[f] = s[f]
  <1>1. CASE m \in Snapshots
    <2>1. m.type = "Snapshot" /\ m.state \in States
      BY <1>1 DEF Snapshots
    <2>2. Shown(s, m) = m.state
      BY <2>1 DEF Shown, Fields
    <2>3. \A f \in Fields : Sets(m, f) /\ Value(m, f) = m.state[f]
      BY <2>1 DEF Sets, Value
    <2> QED BY <2>1, <2>2, <2>3 DEF Stays
  <1>2. CASE m \in Changes /\ m.type \in Fields
    <2>1. m.value \in Values \cup {None}
      BY <1>2 DEF Changes, Fields
    <2>2. Shown(s, m) = [s EXCEPT ![m.type] = m.value]
      BY <1>2 DEF Shown, Fields
    <2>3. \A f \in Fields : (Sets(m, f) <=> f = m.type) /\ Value(m, f) = m.value
      BY <1>2 DEF Sets, Value, Fields
    <2> QED BY <1>2, <2>1, <2>2, <2>3 DEF States, Stays
  <1>3. CASE m \in Changes /\ m.type = "Flushed"
    <2>1. Shown(s, m) = s
      BY <1>3 DEF Shown, Fields
    <2>2. \A f \in Fields : (Sets(m, f) <=> f = "progress") /\ Value(m, f) = None
      BY <1>3 DEF Sets, Value, Fields
    <2> QED BY <2>1, <2>2 DEF Stays
  <1>4. CASE m \in Changes /\ m.type = "SessionEnded"
    <2>1. Shown(s, m) = [Blank EXCEPT !["volume"] = s["volume"]]
      BY <1>4 DEF Shown, Fields
    <2>2. \A f \in Fields : Sets(m, f) /\ Value(m, f) = None
      BY <1>4 DEF Sets, Value, Fields
    <2> QED BY <2>1, <2>2 DEF States, Stays, Blank, Fields
  <1> QED BY <1>1, <1>2, <1>3, <1>4 DEF Sent, Changes

------------------------------------------------------------------------------
(* Messages in a sequence. *)

LEMMA AppendCarries ==
    ASSUME NEW S, NEW s \in Seq(S), NEW m \in S, NEW f, NEW v,
           IF Sets(m, f) THEN Value(m, f) = v ELSE Carries(s, f, v)
    PROVE  Carries(Append(s, m), f, v)
  <1> DEFINE t == Append(s, m)
  <1>1. /\ Len(s) \in Nat /\ Len(t) = Len(s) + 1
        /\ t[Len(s) + 1] = m
        /\ \A i \in 1..Len(s) : t[i] = s[i]
    OBVIOUS
  <1> HIDE DEF t
  <1>2. SUFFICES ASSUME NEW i \in 1..(Len(s) + 1), LastToSet(t, i, f)
                 PROVE  Value(t[i], f) = v
    BY <1>1 DEF Carries, t
  <1>3. CASE Sets(m, f)
    <2>1. i = Len(s) + 1
      BY <1>1, <1>2, <1>3 DEF LastToSet
    <2> QED BY <2>1, <1>1, <1>3
  <1>4. CASE ~ Sets(m, f)
    <2>1. i \in 1..Len(s)
      BY <1>1, <1>2, <1>4 DEF LastToSet
    <2>2. LastToSet(s, i, f)
      BY <2>1, <1>1, <1>2 DEF LastToSet
    <2> QED BY <2>1, <2>2, <1>1, <1>4 DEF Carries
  <1> QED BY <1>3, <1>4

LEMMA AppendSilent ==
    ASSUME NEW S, NEW s \in Seq(S), NEW m \in S, NEW f
    PROVE  Silent(Append(s, m), f) <=> Silent(s, f) /\ ~ Sets(m, f)
  <1> DEFINE t == Append(s, m)
  <1>1. /\ Len(s) \in Nat /\ Len(t) = Len(s) + 1
        /\ t[Len(s) + 1] = m
        /\ \A i \in 1..Len(s) : t[i] = s[i]
    OBVIOUS
  <1> HIDE DEF t
  <1>2. Silent(t, f) => Silent(s, f) /\ ~ Sets(m, f)
    BY <1>1 DEF Silent
  <1>3. Silent(s, f) /\ ~ Sets(m, f) => Silent(t, f)
    <2>1. \A i \in 1..Len(t) : i \in 1..Len(s) \/ i = Len(s) + 1
      BY <1>1
    <2> QED BY <1>1, <2>1 DEF Silent
  <1> QED BY <1>2, <1>3 DEF t

LEMMA HeadAndTail ==
    ASSUME NEW S, NEW s \in Seq(S), s # <<>>
    PROVE  /\ Head(s) \in S /\ Tail(s) \in Seq(S)
           /\ Len(s) \in Nat \ {0} /\ Len(Tail(s)) = Len(s) - 1
           /\ Head(s) = s[1]
           /\ \A i \in 1..(Len(s) - 1) : Tail(s)[i] = s[i + 1]
  OBVIOUS

LEMMA TailCarries ==
    ASSUME NEW S, NEW s \in Seq(S), s # <<>>, NEW f, NEW v, Carries(s, f, v)
    PROVE  Carries(Tail(s), f, v)
  <1> DEFINE t == Tail(s)
  <1>1. /\ Len(s) \in Nat /\ Len(t) = Len(s) - 1
        /\ \A i \in 1..(Len(s) - 1) : t[i] = s[i + 1]
    BY HeadAndTail
  <1> HIDE DEF t
  <1>2. SUFFICES ASSUME NEW i \in 1..(Len(s) - 1), LastToSet(t, i, f)
                 PROVE  Value(t[i], f) = v
    BY <1>1 DEF Carries, t
  <1>3. LastToSet(s, i + 1, f)
    <2>1. ASSUME NEW j \in (i + 2)..Len(s) PROVE ~ Sets(s[j], f)
      <3>1. j - 1 \in (i + 1)..Len(t) /\ t[j - 1] = s[j]
        BY <1>1, <2>1
      <3> QED BY <3>1, <1>2 DEF LastToSet
    <2> QED BY <2>1, <1>1, <1>2 DEF LastToSet
  <1> QED BY <1>1, <1>3 DEF Carries

\* The head is the last to set f when the tail does not.
LEMMA HeadDecides ==
    ASSUME NEW S, NEW s \in Seq(S), s # <<>>, NEW f, Silent(Tail(s), f)
    PROVE  /\ Sets(Head(s), f) => \A v : Carries(s, f, v) => Value(Head(s), f) = v
           /\ ~ Sets(Head(s), f) => Silent(s, f)
  <1> DEFINE t == Tail(s)
  <1>1. /\ Len(s) \in Nat \ {0} /\ Len(t) = Len(s) - 1 /\ Head(s) = s[1]
        /\ \A i \in 1..(Len(s) - 1) : t[i] = s[i + 1]
    BY HeadAndTail
  <1>2. ASSUME NEW j \in 2..Len(s) PROVE ~ Sets(s[j], f)
    <2>1. j - 1 \in 1..Len(t) /\ t[j - 1] = s[j]
      BY <1>1
    <2> QED BY <2>1 DEF Silent
  <1>3. ASSUME Sets(Head(s), f), NEW v, Carries(s, f, v) PROVE Value(Head(s), f) = v
    <2>1. 1 \in 1..Len(s) /\ LastToSet(s, 1, f)
      BY <1>1, <1>2, <1>3 DEF LastToSet
    <2> QED BY <2>1, <1>1, <1>3 DEF Carries
  <1>4. ASSUME ~ Sets(Head(s), f) PROVE Silent(s, f)
    <2>1. \A i \in 1..Len(s) : i = 1 \/ i \in 2..Len(s)
      BY <1>1
    <2> QED BY <2>1, <1>1, <1>2, <1>4 DEF Silent
  <1> QED BY <1>3, <1>4

LEMMA EmptyCarries == \A f, v : Carries(<<>>, f, v) /\ Silent(<<>>, f)
  BY DEF Carries, Silent

------------------------------------------------------------------------------
(* The steps. *)

LEMMA InitIInv == Init => IInv
  <1> SUFFICES ASSUME Init PROVE IInv
    OBVIOUS
  <1>1. Blank \in States
    BY DEF Blank, States
  <1>2. Types
    BY <1>1 DEF Init, Types
  <1>3. \A c \in Clients : queue[c] = <<>> /\ conn[c] = "down"
    BY DEF Init
  <1>4. \A f \in Fields : ~ Unsent(f)
    BY DEF Init, Unsent
  <1> QED BY <1>2, <1>3, <1>4, EmptyCarries
        DEF IInv, DownIsEmpty, FoldedIsNewest, Follows, QueueFollows, ScreenFollows

LEMMA FoldIInv ==
    ASSUME IInv, NEW m \in Messages, Fold(m)
    PROVE  IInv'
  <1>1. /\ folded = None /\ folded' = m /\ m \in Changes /\ m # None
        /\ snapshot' = Folded(snapshot, m) /\ snapshot \in States
        /\ UNCHANGED <<conn, queue, lagged, socket, screen>>
    BY DashboardAssumption DEF IInv, Types, Fold
  <1>2. /\ snapshot' \in States
        /\ \A f \in Fields : snapshot'[f] = IF Sets(m, f) THEN Value(m, f) ELSE snapshot[f]
    BY <1>1, FoldedField
  <1>3. \A f \in Fields : (Unsent(f)' <=> Sets(m, f)) /\ ~ Unsent(f)
    BY <1>1 DEF Unsent
  <1>4. Types'
    BY <1>1, <1>2 DEF IInv, Types
  <1>5. FoldedIsNewest'
    BY <1>1, <1>2, <1>3 DEF FoldedIsNewest
  <1>6. ASSUME NEW c \in Clients, NEW f \in Fields, ~ Sets(m, f)
        PROVE  QueueFollows(c, f)' /\ ScreenFollows(c, f)'
    <2>1. QueueFollows(c, f) /\ ScreenFollows(c, f) /\ ~ Unsent(f)
      BY <1>3, <1>6 DEF IInv, Follows
    <2>2. snapshot'[f] = snapshot[f]
      BY <1>2, <1>6
    <2> QED BY <1>1, <2>1, <2>2 DEF QueueFollows, ScreenFollows
  <1>7. ASSUME NEW c \in Clients, NEW f \in Fields, Sets(m, f)
        PROVE  QueueFollows(c, f)' /\ ScreenFollows(c, f)'
    BY <1>3, <1>7 DEF QueueFollows, ScreenFollows
  <1>8. DownIsEmpty'
    BY <1>1 DEF IInv, DownIsEmpty
  <1> QED BY <1>4, <1>5, <1>6, <1>7, <1>8 DEF IInv, Follows

LEMMA SendIInv ==
    ASSUME IInv, Send
    PROVE  IInv'
  <1> DEFINE full(c) == Len(queue[c]) = Capacity
             kept(c) == IF full(c) THEN Tail(queue[c]) ELSE queue[c]
  <1>1. /\ folded \in Changes /\ folded # None /\ folded' = None
        /\ UNCHANGED <<snapshot, conn, socket, screen>>
    BY DEF IInv, Types, Send
  <1>2. /\ queue' = [c \in Clients |->
                        IF conn[c] = "down" THEN queue[c] ELSE Append(kept(c), folded)]
        /\ lagged' = [c \in Clients |-> lagged[c] \/ (conn[c] # "down" /\ full(c))]
    BY DEF Send
  <1>3. ASSUME NEW c \in Clients
        PROVE  queue[c] \in Seq(Changes) /\ kept(c) \in Seq(Changes)
    <2>1. queue[c] \in Seq(Changes)
      BY DEF IInv, Types
    <2>2. CASE full(c)
      <3>1. queue[c] # <<>>
        BY <2>2, DashboardAssumption
      <3> QED BY <2>1, <2>2, <3>1, HeadAndTail
    <2> QED BY <2>1, <2>2
  <1>4. \A c \in Clients :
            /\ queue'[c] = IF conn[c] = "down" THEN queue[c] ELSE Append(kept(c), folded)
            /\ lagged'[c] = (lagged[c] \/ (conn[c] # "down" /\ full(c)))
    BY <1>2
  <1>5. Types'
    <2>1. queue' \in [Clients -> Seq(Changes)]
      <3> HIDE DEF kept
      <3>1. \A c \in Clients :
              (IF conn[c] = "down" THEN queue[c] ELSE Append(kept(c), folded)) \in Seq(Changes)
        BY <1>1, <1>3
      <3> QED BY <1>2, <3>1
    <2>2. lagged' \in [Clients -> BOOLEAN]
      BY <1>2
    <2> QED BY <1>1, <2>1, <2>2 DEF IInv, Types
  <1>6. FoldedIsNewest'
    BY <1>1 DEF FoldedIsNewest, Unsent
  <1>7. ASSUME NEW c \in Clients, NEW f \in Fields
        PROVE  QueueFollows(c, f)' /\ ScreenFollows(c, f)'
    <2>1. QueueFollows(c, f) /\ ScreenFollows(c, f)
      BY DEF IInv, Follows
    <2>2. Unsent(f) => Value(folded, f) = snapshot[f]
      BY DEF IInv, FoldedIsNewest
    <2>3. Unsent(f) <=> Sets(folded, f)
      BY <1>1 DEF Unsent
    <2>4. CASE conn[c] = "down"
      <3>1. ~ Sets(folded, f) => QueueFollows(c, f)'
        BY <1>1, <1>4, <2>1, <2>3, <2>4 DEF QueueFollows
      <3>2. queue[c] = <<>>
        BY <2>4 DEF IInv, DownIsEmpty
      <3> QED BY <1>1, <1>4, <3>2, <2>4, EmptyCarries DEF QueueFollows, ScreenFollows
    <2>5. CASE conn[c] # "down"
      <3>1. queue'[c] = Append(kept(c), folded)
        BY <1>4, <2>5
      <3>2. ~ Unsent(f) => Carries(kept(c), f, snapshot[f])
        <4>1. CASE full(c)
          <5>1. queue[c] # <<>>
            BY <4>1, DashboardAssumption
          <5> QED BY <1>3, <4>1, <5>1, <2>1, TailCarries DEF QueueFollows
        <4> QED BY <4>1, <2>1 DEF QueueFollows
      <3>3. Carries(Append(kept(c), folded), f, snapshot[f])
        <4> HIDE DEF kept
        <4> QED BY <1>1, <1>3, <3>2, <2>2, <2>3, AppendCarries
      <3>4. QueueFollows(c, f)'
        BY <1>1, <3>1, <3>3 DEF QueueFollows
      <3>5. ASSUME conn'[c] = "up", ~ lagged'[c], Silent(queue'[c], f)
            PROVE  /\ Carries(socket[c], f, snapshot[f])
                   /\ Silent(socket[c], f) => Stays(f, screen[c][f], snapshot[f])
        <4>1. conn[c] = "up" /\ ~ lagged[c] /\ ~ full(c)
          BY <1>1, <1>4, <3>5
        <4>2. Silent(kept(c), f) /\ ~ Sets(folded, f)
          <5> HIDE DEF kept
          <5> QED BY <1>1, <1>3, <3>1, <3>5, AppendSilent
        <4> QED BY <4>1, <4>2, <2>1, <2>3 DEF ScreenFollows
      <3> QED BY <1>1, <3>4, <3>5 DEF ScreenFollows
    <2> QED BY <2>4, <2>5
  <1>8. DownIsEmpty'
    BY <1>1, <1>4 DEF IInv, DownIsEmpty
  <1> QED BY <1>5, <1>6, <1>7, <1>8 DEF IInv, Follows

\* A step of the client c changes nothing of the others.
Others(c) ==
    \A d \in Clients \ {c} :
        /\ conn'[d] = conn[d] /\ queue'[d] = queue[d] /\ lagged'[d] = lagged[d]
        /\ socket'[d] = socket[d] /\ screen'[d] = screen[d]

LEMMA StepOfClient ==
    ASSUME IInv, NEW c \in Clients, UNCHANGED <<snapshot, folded>>,
           Types', Others(c),
           conn'[c] = "down" => queue'[c] = <<>>,
           \A f \in Fields : QueueFollows(c, f)' /\ ScreenFollows(c, f)'
    PROVE  IInv'
  <1>1. FoldedIsNewest'
    BY DEF IInv, FoldedIsNewest, Unsent
  <1>2. DownIsEmpty'
    BY DEF IInv, DownIsEmpty, Others
  <1>3. ASSUME NEW d \in Clients \ {c}, NEW f \in Fields
        PROVE  QueueFollows(d, f)' /\ ScreenFollows(d, f)'
    <2>1. QueueFollows(d, f) /\ ScreenFollows(d, f) /\ (Unsent(f)' <=> Unsent(f))
      BY DEF IInv, Follows, Unsent
    <2> QED BY <2>1 DEF Others, QueueFollows, ScreenFollows
  <1>4. Follows'
    <2>1. ASSUME NEW d \in Clients, NEW f \in Fields
          PROVE  QueueFollows(d, f)' /\ ScreenFollows(d, f)'
      BY <1>3
    <2> QED BY <2>1 DEF Follows
  <1> QED BY <1>1, <1>2, <1>4 DEF IInv

LEMMA ClientIInv ==
    ASSUME IInv, NEW c \in Clients,
           Subscribe(c) \/ Serve(c) \/ Lose(c) \/ Show(c)
    PROVE  IInv'
  <1>1. /\ snapshot \in States /\ SnapshotMessage \in Sent
        /\ queue[c] \in Seq(Changes) /\ socket[c] \in Seq(Sent) /\ screen[c] \in States
    BY DEF IInv, Types, SnapshotMessage, Sent, Snapshots
  <1>2. \A f \in Fields :
            /\ QueueFollows(c, f) /\ ScreenFollows(c, f)
            /\ Sets(SnapshotMessage, f) /\ Value(SnapshotMessage, f) = snapshot[f]
    BY DEF IInv, Follows, SnapshotMessage, Sets, Value
  <1>3. CASE Subscribe(c)
    <2>1. /\ conn' = [conn EXCEPT ![c] = "subscribed"]
          /\ UNCHANGED <<snapshot, folded, queue, lagged, socket, screen>>
      BY <1>3 DEF Subscribe
    <2>2. Types' /\ Others(c) /\ conn'[c] = "subscribed"
      BY <2>1 DEF IInv, Types, Others
    <2>3. \A f \in Fields : QueueFollows(c, f)' /\ ScreenFollows(c, f)'
      BY <1>2, <2>1, <2>2 DEF QueueFollows, ScreenFollows, Unsent
    <2> QED BY <2>1, <2>2, <2>3, StepOfClient
  <1>4. CASE Greet(c)
    <2>1. /\ conn' = [conn EXCEPT ![c] = "up"]
          /\ socket' = [socket EXCEPT ![c] = <<SnapshotMessage>>]
          /\ UNCHANGED <<snapshot, folded, queue, lagged, screen>>
      BY <1>4 DEF Greet
    <2>2. Types' /\ Others(c) /\ conn'[c] = "up" /\ socket'[c] = <<SnapshotMessage>>
      BY <1>1, <2>1 DEF IInv, Types, Others
    <2>3. ASSUME NEW f \in Fields
          PROVE  Carries(socket'[c], f, snapshot[f]) /\ ~ Silent(socket'[c], f)
      BY <1>2, <2>2 DEF Carries, Silent
    <2>4. \A f \in Fields : QueueFollows(c, f)' /\ ScreenFollows(c, f)'
      BY <1>2, <2>1, <2>3 DEF QueueFollows, ScreenFollows, Unsent
    <2> QED BY <2>1, <2>2, <2>4, StepOfClient
  <1>5. CASE Forward(c)
    <2> DEFINE m == Head(queue[c])
    <2>1. /\ conn[c] = "up" /\ ~ lagged[c] /\ queue[c] # <<>>
          /\ socket' = [socket EXCEPT ![c] = Append(socket[c], m)]
          /\ queue' = [queue EXCEPT ![c] = Tail(queue[c])]
          /\ UNCHANGED <<snapshot, folded, conn, lagged, screen>>
      BY <1>5 DEF Forward
    <2>2. m \in Changes /\ m \in Sent /\ Tail(queue[c]) \in Seq(Changes)
      BY <1>1, <2>1, HeadAndTail DEF Sent
    <2> HIDE DEF m
    <2>3. /\ Types' /\ Others(c)
          /\ queue'[c] = Tail(queue[c]) /\ socket'[c] = Append(socket[c], m)
      <3>1. Append(socket[c], m) \in Seq(Sent)
        BY <1>1, <2>2
      <3> QED BY <2>1, <2>2, <3>1 DEF IInv, Types, Others
    <2>4. ASSUME NEW f \in Fields
          PROVE  QueueFollows(c, f)' /\ ScreenFollows(c, f)'
      <3>1. Unsent(f)' <=> Unsent(f)
        BY <2>1 DEF Unsent
      <3>2. QueueFollows(c, f)'
        BY <1>1, <1>2, <2>1, <2>3, <3>1, TailCarries DEF QueueFollows
      <3>3. ASSUME ~ Unsent(f), Silent(Tail(queue[c]), f)
            PROVE  /\ Carries(Append(socket[c], m), f, snapshot[f])
                   /\ Silent(Append(socket[c], m), f) => Stays(f, screen[c][f], snapshot[f])
        <4>1. CASE Sets(m, f)
          <5>1. Value(m, f) = snapshot[f]
            BY <1>1, <1>2, <2>1, <3>3, <4>1, HeadDecides DEF QueueFollows, m
          <5> QED BY <1>1, <2>2, <4>1, <5>1, AppendCarries, AppendSilent
        <4>2. CASE ~ Sets(m, f)
          <5>1. Silent(queue[c], f)
            BY <1>1, <2>1, <3>3, <4>2, HeadDecides DEF m
          <5>2. /\ Carries(socket[c], f, snapshot[f])
                /\ Silent(socket[c], f) => Stays(f, screen[c][f], snapshot[f])
            BY <1>2, <2>1, <3>3, <5>1 DEF ScreenFollows
          <5> QED BY <1>1, <2>2, <4>2, <5>2, AppendCarries, AppendSilent
        <4> QED BY <4>1, <4>2
      <3> QED BY <2>1, <2>3, <3>1, <3>2, <3>3 DEF ScreenFollows
    <2> QED BY <2>1, <2>3, <2>4, StepOfClient
  <1>6. CASE Resync(c)
    <2>1. /\ conn[c] = "up"
          /\ socket' = [socket EXCEPT ![c] = Append(socket[c], SnapshotMessage)]
          /\ lagged' = [lagged EXCEPT ![c] = FALSE]
          /\ UNCHANGED <<snapshot, folded, conn, queue, screen>>
      BY <1>6 DEF Resync
    <2>2. /\ Types' /\ Others(c)
          /\ socket'[c] = Append(socket[c], SnapshotMessage)
      <3>1. Append(socket[c], SnapshotMessage) \in Seq(Sent)
        BY <1>1
      <3> QED BY <1>1, <2>1, <3>1 DEF IInv, Types, Others
    <2>3. ASSUME NEW f \in Fields
          PROVE  Carries(socket'[c], f, snapshot[f]) /\ ~ Silent(socket'[c], f)
      BY <1>1, <1>2, <2>2, AppendCarries, AppendSilent
    <2>4. \A f \in Fields : QueueFollows(c, f)' /\ ScreenFollows(c, f)'
      BY <1>2, <2>1, <2>3 DEF QueueFollows, ScreenFollows, Unsent
    <2> QED BY <2>1, <2>2, <2>4, StepOfClient
  <1>7. CASE Lose(c)
    <2>1. /\ conn' = [conn EXCEPT ![c] = "down"]
          /\ queue' = [queue EXCEPT ![c] = <<>>]
          /\ lagged' = [lagged EXCEPT ![c] = FALSE]
          /\ socket' = [socket EXCEPT ![c] = <<>>]
          /\ UNCHANGED <<snapshot, folded, screen>>
      BY <1>7 DEF Lose
    <2>2. Types' /\ Others(c) /\ conn'[c] = "down" /\ queue'[c] = <<>>
      BY <2>1 DEF IInv, Types, Others
    <2>3. \A f \in Fields : QueueFollows(c, f)' /\ ScreenFollows(c, f)'
      BY <2>2, EmptyCarries DEF QueueFollows, ScreenFollows
    <2> QED BY <2>1, <2>2, <2>3, StepOfClient
  <1>8. CASE Show(c)
    <2> DEFINE m == Head(socket[c])
    <2>1. /\ socket[c] # <<>>
          /\ screen' = [screen EXCEPT ![c] = Shown(screen[c], m)]
          /\ socket' = [socket EXCEPT ![c] = Tail(socket[c])]
          /\ UNCHANGED <<snapshot, folded, conn, queue, lagged>>
      BY <1>8 DEF Show
    <2>2. m \in Sent /\ Tail(socket[c]) \in Seq(Sent)
      BY <1>1, <2>1, HeadAndTail
    <2> HIDE DEF m
    <2>3. /\ Shown(screen[c], m) \in States
          /\ \A f \in Fields :
                IF Sets(m, f) THEN Stays(f, Shown(screen[c], m)[f], Value(m, f))
                ELSE Shown(screen[c], m)[f] = screen[c][f]
      BY <1>1, <2>2, ShownField
    <2>4. /\ Types' /\ Others(c)
          /\ socket'[c] = Tail(socket[c]) /\ screen'[c] = Shown(screen[c], m)
      BY <2>1, <2>2, <2>3 DEF IInv, Types, Others
    <2>5. ASSUME NEW f \in Fields
          PROVE  QueueFollows(c, f)' /\ ScreenFollows(c, f)'
      <3>1. Unsent(f)' <=> Unsent(f)
        BY <2>1 DEF Unsent
      <3>2. QueueFollows(c, f)'
        BY <1>2, <2>1, <3>1 DEF QueueFollows
      <3>3. ASSUME Carries(socket[c], f, snapshot[f]),
                   Silent(socket[c], f) => Stays(f, screen[c][f], snapshot[f])
            PROVE  /\ Carries(Tail(socket[c]), f, snapshot[f])
                   /\ Silent(Tail(socket[c]), f) =>
                        Stays(f, Shown(screen[c], m)[f], snapshot[f])
        <4>1. Carries(Tail(socket[c]), f, snapshot[f])
          BY <1>1, <2>1, <3>3, TailCarries
        <4>2. ASSUME Silent(Tail(socket[c]), f)
              PROVE  Stays(f, Shown(screen[c], m)[f], snapshot[f])
          <5>1. CASE Sets(m, f)
            <6>1. Value(m, f) = snapshot[f]
              BY <1>1, <2>1, <3>3, <4>2, <5>1, HeadDecides DEF m
            <6> QED BY <2>3, <5>1, <6>1
          <5>2. CASE ~ Sets(m, f)
            <6>1. Silent(socket[c], f)
              BY <1>1, <2>1, <4>2, <5>2, HeadDecides DEF m
            <6> QED BY <2>3, <3>3, <5>2, <6>1
          <5> QED BY <5>1, <5>2
        <4> QED BY <4>1, <4>2
      <3> QED BY <1>2, <2>1, <2>4, <3>1, <3>2, <3>3 DEF ScreenFollows
    <2>6. conn'[c] = "down" => queue'[c] = <<>>
      BY <2>1 DEF IInv, DownIsEmpty
    <2> QED BY <2>1, <2>4, <2>5, <2>6, StepOfClient
  <1> QED BY <1>3, <1>4, <1>5, <1>6, <1>7, <1>8 DEF Serve

LEMMA RestartIInv ==
    ASSUME IInv, Restart
    PROVE  IInv'
  <1>1. /\ snapshot' = Blank /\ folded' = None /\ screen' = screen
        /\ conn' = [c \in Clients |-> "down"]
        /\ queue' = [c \in Clients |-> <<>>]
        /\ lagged' = [c \in Clients |-> FALSE]
        /\ socket' = [c \in Clients |-> <<>>]
    BY DEF Restart
  <1>2. Blank \in States
    BY DEF Blank, States
  <1>3. Types'
    BY <1>1, <1>2 DEF IInv, Types
  <1>4. \A c \in Clients : queue'[c] = <<>> /\ conn'[c] = "down"
    BY <1>1
  <1>5. \A f \in Fields : ~ Unsent(f)'
    BY <1>1 DEF Unsent
  <1> QED BY <1>3, <1>4, <1>5, EmptyCarries
        DEF IInv, DownIsEmpty, FoldedIsNewest, Follows, QueueFollows, ScreenFollows

LEMMA Invariant == Spec => []IInv
  <1>1. ASSUME IInv, [Next]_vars PROVE IInv'
    <2>1. CASE EventTask
      BY <1>1, <2>1, FoldIInv DEF EventTask
    <2>2. CASE Send
      BY <1>1, <2>2, SendIInv
    <2>3. ASSUME NEW c \in Clients, Subscribe(c) \/ Serve(c) \/ Lose(c) \/ Show(c)
          PROVE  IInv'
      BY <1>1, <2>3, ClientIInv
    <2>4. CASE Restart
      BY <1>1, <2>4, RestartIInv
    <2>5. CASE UNCHANGED vars
      <3>1. \A f \in Fields : Unsent(f)' <=> Unsent(f)
        BY <2>5 DEF vars, Unsent
      <3> QED BY <1>1, <2>5, <3>1 DEF vars, IInv, Types, FoldedIsNewest, DownIsEmpty,
                Follows, QueueFollows, ScreenFollows
    <2> QED BY <1>1, <2>1, <2>2, <2>3, <2>4, <2>5 DEF Next
  <1> QED BY <1>1, InitIInv, PTL DEF Spec

\* A dashboard that caught up shows what the receiver knows, whatever was
\* published, lost, or overtaken by a snapshot on the way: `publish` folds and
\* sends in two steps, and `serve_client` subscribes before it takes the
\* snapshot.
THEOREM CaughtUpTheorem == Spec => []CaughtUpAgrees
  <1>1. IInv => CaughtUpAgrees
    <2> SUFFICES ASSUME IInv, NEW c \in Clients, CaughtUp(c) PROVE Agrees(c)
      BY DEF CaughtUpAgrees
    <2>1. /\ conn[c] = "up" /\ ~ lagged[c] /\ queue[c] = <<>> /\ socket[c] = <<>>
          /\ \A f \in Fields : ~ Unsent(f)
      BY DEF CaughtUp, Unsent
    <2>2. \A f \in Fields : Stays(f, screen[c][f], snapshot[f])
      BY <2>1, EmptyCarries DEF IInv, Follows, ScreenFollows
    <2> QED BY <2>2 DEF Agrees, Stays, Fields
  <1> QED BY <1>1, Invariant, PTL
================================================================================
