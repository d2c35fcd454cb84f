---------------------------- MODULE SessionsProofs ----------------------------
(***************************************************************************)
(* Sessions, for any number of connections, playback threads and contents, *)
(* whatever the senders request.                                           *)
(*                                                                         *)
(* First the slot: one sender at a time.  That a live sink's connection    *)
(* holds the slot is not inductive: when the slot is released, nothing in  *)
(* the statement says that the connection has no thread left.  The         *)
(* strengthening adds that a live thread is the current or the replaced    *)
(* player of its connection, that a replaced player exists only while      *)
(* SETUP waits for it, and that SETUP holds the slot from its first step.  *)
(*                                                                         *)
(* Then what the host is told: when SessionStarted comes, when the latched *)
(* events come, that the latest one wins, where sessions overlap, when     *)
(* progress is reported.  The latch needs one equation that every step     *)
(* keeps: what the sender last said is what is pending, and where nothing  *)
(* is pending it is what the host shows.                                   *)
(*                                                                         *)
(* Last the gate: a sender without the password causes nothing.            *)
(***************************************************************************)
EXTENDS Sessions, FiniteSetTheorems, SequenceTheorems, TLAPS

Types ==
    /\ pc \in [Conns -> Labels]
    /\ guard \in [Conns -> BOOLEAN]
    /\ slot \in BOOLEAN
    /\ player \in [Conns -> Threads \cup {None}]
    /\ old \in [Conns -> Threads \cup {None}]
    /\ thread \in [Threads -> [conn : Conns \cup {None},
                               state : {"free", "run", "playing", "report", "drain"},
                               stop : BOOLEAN]]

Exclusive ==
    /\ \A c, d \in Conns : guard[c] /\ guard[d] => c = d
    /\ slot = (\E c \in Conns : guard[c])

Owned(t) ==
    /\ thread[t].conn \in Conns
    /\ guard[thread[t].conn]
    /\ t \in {player[thread[t].conn], old[thread[t].conn]}

ThreadsOwned == \A t \in Threads : thread[t].state # "free" => Owned(t)

HandlerInv ==
    \A c \in Conns :
        /\ pc[c] \in {"setup", "replay", "spawn", "swap"} => guard[c]
        /\ old[c] # None => pc[c] = "swap"

IInv == Types /\ Exclusive /\ ThreadsOwned /\ HandlerInv

LEMMA NoneIsNothing == None \notin Conns /\ None \notin Threads
  BY SessionsAssumption

LEMMA InitIInv == Init => IInv
  <1> SUFFICES ASSUME Init PROVE IInv
    OBVIOUS
  <1>1. Types
    BY DEF Init, Types, Labels, Free
  <1>2. Exclusive /\ HandlerInv
    BY DEF Init, Exclusive, HandlerInv
  <1>3. ThreadsOwned
    BY DEF Init, ThreadsOwned, Free
  <1> QED BY <1>1, <1>2, <1>3 DEF IInv

\* Steps that leave the slot, the players and the threads alone.
LEMMA KeepIInv ==
    ASSUME IInv, NEW c \in Conns, NEW l \in Labels, pc' = [pc EXCEPT ![c] = l],
           l \in {"setup", "replay", "spawn", "swap"} => guard[c],
           pc[c] # "swap" \/ l = "swap",
           UNCHANGED <<slot, guard, player, old, thread>>
    PROVE  IInv'
  <1>1. Types'
    BY DEF IInv, Types
  <1>2. Exclusive' /\ ThreadsOwned'
    BY DEF IInv, Exclusive, ThreadsOwned, Owned
  <1>3. HandlerInv'
    BY DEF IInv, Types, HandlerInv
  <1> QED BY <1>1, <1>2, <1>3 DEF IInv

\* Steps of a playback thread that stays with its session, or ends.
LEMMA ThreadIInv ==
    ASSUME IInv, NEW t \in Threads, UNCHANGED <<pc, slot, guard, player, old>>,
           NEW r \in [conn : Conns \cup {None},
                      state : {"free", "run", "playing", "report", "drain"}, stop : BOOLEAN],
           thread' = [thread EXCEPT ![t] = r],
           r.state = "free" \/ (thread[t].state # "free" /\ r.conn = thread[t].conn)
    PROVE  IInv'
  <1>1. Types' /\ Exclusive' /\ HandlerInv'
    BY DEF IInv, Types, Exclusive, HandlerInv
  <1>2. ThreadsOwned'
    BY DEF IInv, Types, ThreadsOwned, Owned
  <1> QED BY <1>1, <1>2 DEF IInv

\* Setting a stop flag moves no thread to another session.
LEMMA HaltedKeeps ==
    ASSUME Types, NEW c \in Conns
    PROVE  /\ Halted(c) \in [Threads -> [conn : Conns \cup {None},
                                state : {"free", "run", "playing", "report", "drain"},
                                stop : BOOLEAN]]
           /\ \A u \in Threads : /\ Halted(c)[u].conn = thread[u].conn
                                 /\ Halted(c)[u].state = thread[u].state
  <1>1. CASE player[c] = None
    BY <1>1 DEF Halted, Types
  <1>2. CASE player[c] # None
    <2>1. PICK p \in Threads : p = player[c]
      BY <1>2 DEF Types
    <2>2. Halted(c) = [thread EXCEPT ![p] = [thread[p] EXCEPT !.stop = TRUE]]
      BY <1>2, <2>1 DEF Halted
    <2>3. /\ [thread[p] EXCEPT !.stop = TRUE] \in
                 [conn : Conns \cup {None}, state : {"free", "run", "playing", "report", "drain"},
                  stop : BOOLEAN]
          /\ [thread[p] EXCEPT !.stop = TRUE].conn = thread[p].conn
          /\ [thread[p] EXCEPT !.stop = TRUE].state = thread[p].state
      BY DEF Types
    <2> QED BY <2>2, <2>3 DEF Types
  <1> QED BY <1>1, <1>2

LEMMA SetupIInv == ASSUME IInv, NEW c \in Conns, Setup(c) PROVE IInv'
  <1>1. Types'
    BY DEF Setup, Goto, IInv, Types, Labels
  <1>2. Exclusive'
    BY DEF Setup, IInv, Types, Exclusive
  <1>3. ThreadsOwned'
    BY DEF Setup, IInv, Types, ThreadsOwned, Owned
  <1>4. HandlerInv'
    BY DEF Setup, Goto, IInv, Types, HandlerInv
  <1> QED BY <1>1, <1>2, <1>3, <1>4 DEF IInv

LEMMA SpawnsOne ==
    ASSUME NEW c \in Conns, Spawn(c)
    PROVE  \E t \in Threads, b \in {"run", "drain"} :
              /\ thread[t].state = "free"
              /\ thread' = [Halted(c) EXCEPT
                               ![t] = [conn |-> c, state |-> b, stop |-> FALSE]]
              /\ player' = [player EXCEPT ![c] = t]
  <1>1. Fresh \in Threads /\ thread[Fresh].state = "free"
    BY DEF Spawn, Fresh
  <1> QED BY <1>1 DEF Spawn

LEMMA SpawnIInv == ASSUME IInv, NEW c \in Conns, Spawn(c) PROVE IInv'
  <1> DEFINE p == player[c]
  <1>1. PICK t \in Threads, b \in {"run", "drain"} :
          /\ thread[t].state = "free"
          /\ thread' = [Halted(c) EXCEPT
                           ![t] = [conn |-> c, state |-> b, stop |-> FALSE]]
          /\ player' = [player EXCEPT ![c] = t]
    BY SpawnsOne
  <1>2. /\ pc[c] = "spawn" /\ guard[c]
        /\ old' = [old EXCEPT ![c] = p] /\ pc' = [pc EXCEPT ![c] = "swap"]
        /\ UNCHANGED <<slot, guard>>
    BY DEF Spawn, Goto, IInv, HandlerInv
  <1>3. \A u \in Threads :
          /\ u = t => thread'[u] = [conn |-> c, state |-> b, stop |-> FALSE]
          /\ u # t => /\ thread'[u].conn = thread[u].conn
                      /\ thread'[u].state = thread[u].state
    BY <1>1, HaltedKeeps DEF IInv, Types
  <1>4. Types'
    BY <1>1, <1>2, HaltedKeeps DEF IInv, Types, Labels
  <1>5. Exclusive' /\ HandlerInv'
    BY <1>2 DEF IInv, Types, Exclusive, HandlerInv
  <1>6. ThreadsOwned'
    <2>1. SUFFICES ASSUME NEW u \in Threads, thread'[u].state # "free" PROVE Owned(u)'
      BY DEF ThreadsOwned
    <2>2. CASE u = t
      BY <2>2, <1>1, <1>2, <1>3 DEF Owned, IInv, Types
    <2>3. CASE u # t
      <3>1. Owned(u) /\ thread'[u].conn = thread[u].conn
        BY <2>1, <2>3, <1>3 DEF IInv, ThreadsOwned
      <3>2. thread[u].conn = c
        BY <3>1, <1>2 DEF Owned, IInv, Exclusive
      <3>3. old[c] = None /\ u = p
        BY <3>1, <3>2, <1>2, NoneIsNothing DEF Owned, IInv, HandlerInv
      <3> QED BY <3>1, <3>2, <3>3, <1>1, <1>2 DEF Owned, IInv, Types
    <2> QED BY <2>2, <2>3
  <1> QED BY <1>4, <1>5, <1>6 DEF IInv

LEMMA SetupDoneIInv == ASSUME IInv, NEW c \in Conns, SetupDone(c) PROVE IInv'
  <1>1. Types' /\ Exclusive' /\ HandlerInv'
    BY DEF SetupDone, Goto, IInv, Types, Labels, Exclusive, HandlerInv
  <1>2. ThreadsOwned'
    BY DEF SetupDone, IInv, Types, ThreadsOwned, Owned
  <1> QED BY <1>1, <1>2 DEF IInv

\* TEARDOWN and Drop release the slot only after the join.
LEMMA ReleaseIInv ==
    ASSUME IInv, NEW c \in Conns, NEW l \in {"tdEnd", "closed"},
           pc[c] \in {"tdJoin", "dropJoin"}, PlayerGone(c),
           player' = [player EXCEPT ![c] = None],
           guard' = [guard EXCEPT ![c] = FALSE],
           slot' = IF guard[c] THEN FALSE ELSE slot,
           pc' = [pc EXCEPT ![c] = l], UNCHANGED <<old, thread>>
    PROVE  IInv'
  <1>1. Types'
    BY DEF IInv, Types, Labels
  <1>2. Exclusive'
    BY DEF IInv, Types, Exclusive
  <1>3. HandlerInv'
    BY DEF IInv, Types, HandlerInv
  <1>4. ThreadsOwned'
    <2>1. SUFFICES ASSUME NEW u \in Threads, thread[u].state # "free" PROVE Owned(u)'
      BY DEF ThreadsOwned
    <2>2. Owned(u)
      BY <2>1 DEF IInv, ThreadsOwned
    <2>3. thread[u].conn # c
      BY <2>1, <2>2, NoneIsNothing DEF Owned, PlayerGone, IInv, HandlerInv
    <2> QED BY <2>2, <2>3 DEF Owned, IInv, Types
  <1> QED BY <1>1, <1>2, <1>3, <1>4 DEF IInv

LEMMA StopIInv ==
    ASSUME IInv, NEW c \in Conns, NEW l \in {"tdJoin", "dropJoin"},
           pc[c] \in {"idle", "drop"}, thread' = Halted(c), pc' = [pc EXCEPT ![c] = l],
           UNCHANGED <<slot, guard, player, old>>
    PROVE  IInv'
  <1>1. Types' /\ \A u \in Threads : /\ thread'[u].conn = thread[u].conn
                                     /\ thread'[u].state = thread[u].state
    BY HaltedKeeps DEF IInv, Types, Labels
  <1>2. Exclusive' /\ HandlerInv'
    BY DEF IInv, Types, Exclusive, HandlerInv
  <1>3. ThreadsOwned'
    BY <1>1 DEF IInv, ThreadsOwned, Owned
  <1> QED BY <1>1, <1>2, <1>3 DEF IInv

LEMMA PlaybackIInv == ASSUME IInv, NEW t \in Threads, Playback(t) PROVE IInv'
  <1>1. \A s \in {"run", "playing", "report"} :
           [thread[t] EXCEPT !.state = s] \in
              [conn : Conns \cup {None}, state : {"free", "run", "playing", "report", "drain"},
               stop : BOOLEAN]
        /\ [thread[t] EXCEPT !.state = s].conn = thread[t].conn
    BY DEF IInv, Types
  <1>2. ASSUME NEW from \in {"run", "playing", "report"},
               NEW to \in {"run", "playing", "report"}, MoveThread(t, from, to)
        PROVE  IInv'
    <2>1. thread' = [thread EXCEPT ![t] = [thread[t] EXCEPT !.state = to]]
      BY <1>2 DEF MoveThread, IInv, Types
    <2> QED BY <1>1, <1>2, <2>1, ThreadIInv DEF MoveThread, sessionVars
  <1>3. CASE TakeFrame(t)
    BY <1>3, <1>2 DEF TakeFrame
  <1>4. CASE CopyTrack(t)
    BY <1>4, <1>2 DEF CopyTrack
  <1>5. CASE ReportPosition(t)
    BY <1>5, <1>2 DEF ReportPosition
  <1>6. CASE SkipReport(t)
    BY <1>6, <1>2 DEF SkipReport
  <1>7. CASE PlayerFlushes(t)
    BY <1>7 DEF PlayerFlushes, sessionVars, IInv, Types, Exclusive, ThreadsOwned,
                Owned, HandlerInv
  <1>8. CASE StopThread(t) \/ DrainEnds(t)
    <2>1. Free \in [conn : Conns \cup {None}, state : {"free", "run", "playing", "report", "drain"},
                    stop : BOOLEAN] /\ Free.state = "free"
      BY DEF Free
    <2> QED BY <1>8, <2>1, ThreadIInv DEF StopThread, DrainEnds, ThreadEnds, sessionVars
  <1> QED BY <1>3, <1>4, <1>5, <1>6, <1>7, <1>8 DEF Playback

LEMMA HandlerIInv == ASSUME IInv, NEW c \in Conns, Handler(c) PROVE IInv'
  <1>1. CASE SetupFails(c)
    BY <1>1, KeepIInv DEF SetupFails, Goto, Labels, sessionVars
  <1>2. CASE SetupStarts(c)
    <2>1. guard[c]
      BY <1>2 DEF SetupStarts, IInv, HandlerInv
    <2> QED BY <1>2, <2>1, KeepIInv DEF SetupStarts, Goto, Labels
  <1>3. CASE Replay(c)
    <2>1. guard[c]
      BY <1>3 DEF Replay, IInv, HandlerInv
    <2> QED BY <1>3, <2>1, KeepIInv DEF Replay, Goto, Labels
  <1>4. CASE Spawn(c)
    BY <1>4, SpawnIInv
  <1>5. CASE SetupDone(c)
    BY <1>5, SetupDoneIInv
  <1>6. CASE TeardownReleases(c)
    BY <1>6, ReleaseIInv DEF TeardownReleases, Goto
  <1>7. CASE TeardownEnds(c)
    BY <1>7, KeepIInv DEF TeardownEnds, Goto, Labels
  <1>8. CASE DropPlayer(c)
    BY <1>8, StopIInv DEF DropPlayer, Goto, sessionVars
  <1>9. CASE DropGuard(c)
    BY <1>9, ReleaseIInv DEF DropGuard, Goto
  <1> QED BY <1>1, <1>2, <1>3, <1>4, <1>5, <1>6, <1>7, <1>8, <1>9 DEF Handler

\* A step that moves no handler and no thread.
LEMMA StayIInv ==
    ASSUME IInv, UNCHANGED <<pc, slot, guard, player, old, thread>> PROVE IInv'
  BY DEF IInv, Types, Exclusive, ThreadsOwned, Owned, HandlerInv

LEMMA RequestIInv == ASSUME IInv, NEW c \in Conns, Request(c) PROVE IInv'
  <1>1. CASE Announce(c)
    BY <1>1, StayIInv DEF Announce
  <1>2. CASE Setup(c)
    BY <1>2, SetupIInv
  <1>3. CASE SetVolume(c)
    BY <1>3, StayIInv DEF SetVolume, sessionVars
  <1>4. CASE SetProgress(c)
    BY <1>4, StayIInv DEF SetProgress
  <1>5. CASE Flush(c)
    BY <1>5, StayIInv DEF Flush, sessionVars
  <1>6. CASE \E k \in Kinds, v \in Values : SetDecoration(c, k, v)
    BY <1>6, StayIInv DEF SetDecoration
  <1>7. CASE Teardown(c)
    BY <1>7, StopIInv DEF Teardown, Goto, sessionVars
  <1> QED BY <1>1, <1>2, <1>3, <1>4, <1>5, <1>6, <1>7 DEF Request, Dispatch

\* The ends of the connection, and its audio task.
LEMMA ConnectionIInv ==
    ASSUME IInv, NEW c \in Conns, Connect(c) \/ Close(c) \/ AudioTask(c) PROVE IInv'
  <1>1. CASE Connect(c)
    BY <1>1, KeepIInv DEF Connect, Goto, Labels
  <1>2. CASE Close(c)
    BY <1>2, KeepIInv DEF Close, Goto, Labels
  <1>3. CASE AudioTask(c)
    BY <1>3, StayIInv DEF AudioTask, TaskFlushes, sessionVars
  <1> QED BY <1>1, <1>2, <1>3

LEMMA NextIInv == IInv /\ [Next]_vars => IInv'
  <1> SUFFICES ASSUME IInv, [Next]_vars PROVE IInv'
    OBVIOUS
  <1>1. CASE \E c \in Conns :
                Connect(c) \/ Request(c) \/ Close(c) \/ Handler(c) \/ AudioTask(c)
    BY <1>1, HandlerIInv, RequestIInv, ConnectionIInv
  <1>2. CASE \E t \in Threads : Playback(t)
    BY <1>2, PlaybackIInv
  <1>3. CASE UNCHANGED vars
    BY <1>3, StayIInv DEF vars
  <1> QED BY <1>1, <1>2, <1>3 DEF Next

LEMMA Inductive == Spec => []IInv
  <1> QED BY InitIInv, NextIInv, PTL DEF Spec

\* At most one connection holds the slot, and every live sink belongs to the
\* connection that holds it (SessionSlot, TEARDOWN and the drop order).
THEOREM OneOwnerTheorem == Spec => []OneOwner
  <1>1. IInv => OneOwner
    BY DEF IInv, Exclusive, ThreadsOwned, Owned, OneOwner, Live
  <1> QED BY <1>1, Inductive, PTL

\* Two sinks live at once only while a second SETUP on one connection waits for
\* the thread of the player it replaced (handle_setup, Drop of Player).
THEOREM OneSinkTheorem == Spec => []OneSink
  <1>1. ASSUME IInv, Cardinality(Live) > 1
        PROVE  \E c \in Conns : pc[c] = "swap" /\ Live = {player[c], old[c]}
    <2>1. PICK t \in Live, u \in Live : t # u
      <3>1. CASE Live = {}
        BY <3>1, <1>1, FS_EmptySet
      <3>2. CASE \E t \in Live : Live = {t}
        <4>1. PICK t : Live = {t}
          BY <3>2
        <4>2. Cardinality({t}) = 1
          BY FS_Singleton
        <4> QED BY <4>1, <4>2, <1>1
      <3> QED BY <3>1, <3>2
    <2> DEFINE c == thread[t].conn
    <2>2. c \in Conns /\ guard[c]
      BY <1>1 DEF Live, IInv, ThreadsOwned, Owned
    <2>3. \A v \in Live : v \in {player[c], old[c]}
      BY <1>1, <2>2 DEF Live, IInv, ThreadsOwned, Owned, Exclusive
    <2>4. Live = {player[c], old[c]}
      BY <2>1, <2>3
    <2>5. old[c] # None
      BY <2>1, <2>3, NoneIsNothing DEF Live
    <2>6. pc[c] = "swap"
      BY <1>1, <2>2, <2>5 DEF IInv, HandlerInv
    <2> QED BY <2>2, <2>4, <2>6
  <1>2. IInv => OneSink
    BY <1>1 DEF OneSink
  <1> QED BY <1>2, Inductive, PTL

------------------------------------------------------------------------------
(* What the host is told. *)

Contents == [Kinds -> Values \cup {None}]

LatchTypes ==
    /\ streaming \in [Conns -> BOOLEAN] /\ open \in [Conns -> Nat]
    /\ pending \in [Conns -> Contents]
    /\ told \in [Conns -> Contents]
    /\ shown \in [Conns -> Contents]

StreamInv ==
    \A c \in Conns :
        /\ streaming[c] => open[c] > 0
        /\ pc[c] = "replay" => streaming[c]
        /\ pc[c] \in {"drop", "dropJoin", "closed"} => ~ streaming[c]

LatchInv ==
    \A c \in Conns :
        /\ \A k \in Kinds :
              told[c][k] = IF pending[c][k] # None THEN pending[c][k] ELSE shown[c][k]
        /\ streaming[c] /\ pc[c] # "replay" => pending[c] = Nothing
        /\ ~ streaming[c] => shown[c] = Nothing

\* Each event of a step, by its kind.
EventOK(e) ==
    /\ e.kind = "Started" => e.conn \in Conns /\ guard[e.conn]
    /\ e.kind \in Kinds => open[e.conn] > 0

EventsInv == \A k \in 1..Len(events) : EventOK(events[k])

EInv == IInv /\ LatchTypes /\ StreamInv /\ LatchInv /\ EventsInv

LEMMA KindNames == /\ \A k \in Kinds : k \in {"Metadata", "Artwork"}
                   /\ \A v \in Values : v # None
                   /\ Nothing \in Contents /\ \A k \in Kinds : Nothing[k] = None
  BY SessionsAssumption DEF Nothing, Contents

LEMMA NoEvents == events' = <<>> => EventsInv'
  BY DEF EventsInv

LEMMA OneEvent ==
    ASSUME NEW e, events' = <<e>>, EventOK(e)' PROVE EventsInv'
  BY DEF EventsInv

LEMMA ShortSeqs == ASSUME NEW S, NEW e \in S PROVE <<>> \in Seq(S) /\ <<e>> \in Seq(S)
  OBVIOUS

LEMMA BothEvents ==
    ASSUME NEW S, NEW s \in Seq(S), NEW t \in Seq(S), events' = s \o t,
           \A i \in 1..Len(s) : EventOK(s[i])', \A i \in 1..Len(t) : EventOK(t[i])'
    PROVE  EventsInv'
  <1> SUFFICES ASSUME NEW i \in 1..Len(events') PROVE EventOK(events[i])'
    BY DEF EventsInv
  <1>1. /\ i \in 1..Len(s) + Len(t)
        /\ events'[i] = IF i <= Len(s) THEN s[i] ELSE t[i - Len(s)]
    BY ConcatProperties
  <1>2. i <= Len(s) => i \in 1..Len(s)
    OBVIOUS
  <1>3. ~ (i <= Len(s)) => i - Len(s) \in 1..Len(t)
    BY <1>1
  <1> QED BY <1>1, <1>2, <1>3 DEF EventOK

LEMMA InitEInv == Init => EInv
  <1> SUFFICES ASSUME Init PROVE EInv
    OBVIOUS
  <1>1. LatchTypes /\ StreamInv /\ LatchInv
    BY KindNames DEF Init, LatchTypes, StreamInv, LatchInv
  <1>2. EventsInv
    BY DEF Init, EventsInv
  <1> QED BY <1>1, <1>2, InitIInv DEF EInv

\* Steps that touch neither a latch nor the session's state.
LEMMA QuietStep ==
    ASSUME EInv, UNCHANGED <<streaming, open, pending, told, shown>>,
           NEW c \in Conns, NEW l \in Labels \ {"replay"}, pc[c] # "replay",
           l \in {"drop", "dropJoin", "closed"} => ~ streaming[c],
           pc' = [pc EXCEPT ![c] = l]
    PROVE  LatchTypes' /\ StreamInv' /\ LatchInv'
  BY DEF EInv, IInv, Types, LatchTypes, StreamInv, LatchInv

LEMMA SetupStartsStep ==
    ASSUME EInv, NEW c \in Conns, SetupStarts(c)
    PROVE  LatchTypes' /\ StreamInv' /\ LatchInv' /\ EventsInv'
  <1>1. LatchTypes'
    BY DEF SetupStarts, EInv, LatchTypes
  <1>2. StreamInv'
    BY DEF SetupStarts, Goto, EInv, IInv, Types, LatchTypes, StreamInv
  <1>3. LatchInv'
    BY DEF SetupStarts, Goto, EInv, IInv, Types, LatchTypes, LatchInv
  <1>4. EventsInv'
    <2>1. guard'[c]
      BY DEF SetupStarts, EInv, IInv, HandlerInv
    <2>2. EventOK(Event("Started", c))'
      BY <2>1, KindNames DEF EventOK, Event
    <2> QED BY <2>2, OneEvent DEF SetupStarts
  <1> QED BY <1>1, <1>2, <1>3, <1>4

LEMMA ReplayStep ==
    ASSUME EInv, NEW c \in Conns, Replay(c)
    PROVE  LatchTypes' /\ StreamInv' /\ LatchInv' /\ EventsInv'
  <1>1. LatchTypes'
    BY KindNames DEF Replay, EInv, LatchTypes, Contents
  <1>2. StreamInv'
    BY DEF Replay, Goto, EInv, IInv, Types, LatchTypes, StreamInv
  <1>3. LatchInv'
    <2>1. ASSUME NEW d \in Conns, NEW k \in Kinds
          PROVE  told'[d][k] = IF pending'[d][k] # None THEN pending'[d][k] ELSE shown'[d][k]
      BY KindNames DEF Replay, EInv, LatchTypes, Contents, LatchInv
    <2>2. \A d \in Conns : streaming'[d] => pending'[d] = Nothing \/ (d # c /\ pending'[d] = pending[d])
      BY DEF Replay, EInv, LatchTypes
    <2>3. \A d \in Conns : ~ streaming'[d] => shown'[d] = Nothing
      BY DEF Replay, EInv, LatchTypes, LatchInv, StreamInv
    <2>4. \A d \in Conns \ {c} : pc'[d] = pc[d] /\ streaming' = streaming
      BY DEF Replay, Goto, EInv, IInv, Types
    <2> QED BY <2>1, <2>2, <2>3, <2>4 DEF LatchInv, EInv
  <1>4. EventsInv'
    <2> DEFINE M == {<<>>, <<Event("Metadata", c)>>}
               A == {<<>>, <<Event("Artwork", c)>>}
               S == {Event("Metadata", c), Event("Artwork", c)}
    <2>1. PICK m \in M, a \in A : events' = m \o a
      BY DEF Replay
    <2>2. open'[c] > 0
      BY DEF Replay, EInv, StreamInv
    <2>3. \A k \in {"Metadata", "Artwork"} : EventOK(Event(k, c))'
      BY <2>2 DEF EventOK, Event
    <2>4. m \in Seq(S)
      <3>1. Event("Metadata", c) \in S
        OBVIOUS
      <3> HIDE DEF S
      <3>2. <<>> \in Seq(S) /\ <<Event("Metadata", c)>> \in Seq(S)
        BY <3>1, ShortSeqs
      <3> QED BY <3>2
    <2>5. a \in Seq(S)
      <3>1. Event("Artwork", c) \in S
        OBVIOUS
      <3> HIDE DEF S
      <3>2. <<>> \in Seq(S) /\ <<Event("Artwork", c)>> \in Seq(S)
        BY <3>1, ShortSeqs
      <3> QED BY <3>2
    <2>6. ASSUME NEW i \in 1..Len(m) PROVE EventOK(m[i])'
      <3>1. m[i] = Event("Metadata", c)
        OBVIOUS
      <3> QED BY <2>3, <3>1 DEF EventOK
    <2>7. ASSUME NEW i \in 1..Len(a) PROVE EventOK(a[i])'
      <3>1. a[i] = Event("Artwork", c)
        OBVIOUS
      <3> QED BY <2>3, <3>1 DEF EventOK
    <2> HIDE DEF M, A, S
    <2> QED BY <2>1, <2>4, <2>5, <2>6, <2>7, BothEvents
  <1> QED BY <1>1, <1>2, <1>3, <1>4

LEMMA ConnectStep ==
    ASSUME EInv, NEW c \in Conns, Connect(c)
    PROVE  LatchTypes' /\ StreamInv' /\ LatchInv'
  <1>1. LatchTypes' /\ StreamInv'
    BY KindNames DEF Connect, Goto, EInv, IInv, Types, LatchTypes, StreamInv
  <1>2. LatchInv'
    BY KindNames DEF Connect, Goto, EInv, IInv, Types, LatchTypes, StreamInv, LatchInv
  <1> QED BY <1>1, <1>2

LEMMA SetDecorationStep ==
    ASSUME EInv, NEW c \in Conns, NEW k \in Kinds, NEW v \in Values, SetDecoration(c, k, v)
    PROVE  LatchTypes' /\ StreamInv' /\ LatchInv' /\ EventsInv'
  <1>1. told' = [told EXCEPT ![c] = [told[c] EXCEPT ![k] = v]]
    BY DEF SetDecoration
  <1>2. CASE streaming[c]
    <2>1. /\ shown' = [shown EXCEPT ![c] = [shown[c] EXCEPT ![k] = v]]
          /\ UNCHANGED <<pending, pc, streaming, open>> /\ events' = <<Event(k, c)>>
          /\ pending[c] = Nothing /\ open[c] > 0
      BY <1>2 DEF SetDecoration, EInv, LatchInv, StreamInv
    <2>2. LatchTypes' /\ StreamInv'
      BY <1>1, <2>1 DEF EInv, LatchTypes, Contents, StreamInv
    <2>3. LatchInv'
      BY <1>1, <1>2, <2>1, KindNames DEF EInv, LatchTypes, Contents, LatchInv
    <2>4. EventOK(Event(k, c))'
      BY <2>1, KindNames DEF EventOK, Event
    <2> QED BY <2>1, <2>2, <2>3, <2>4, OneEvent
  <1>3. CASE ~ streaming[c]
    <2>1. /\ pending' = [pending EXCEPT ![c] = [pending[c] EXCEPT ![k] = v]]
          /\ UNCHANGED <<shown, pc, streaming, open>> /\ events' = <<>>
      BY <1>3 DEF SetDecoration
    <2>2. LatchTypes' /\ StreamInv'
      BY <1>1, <2>1 DEF EInv, LatchTypes, Contents, StreamInv
    <2>3. LatchInv'
      BY <1>1, <1>3, <2>1, KindNames DEF EInv, LatchTypes, Contents, LatchInv
    <2> QED BY <2>1, <2>2, <2>3, NoEvents
  <1> QED BY <1>2, <1>3

\* EndSession forgets what was told and shown together.
LEMMA EndSessionStep ==
    ASSUME EInv, NEW c \in Conns, EndSession(c), pc[c] \in {"idle", "tdEnd"},
           NEW l \in {"idle", "drop"}, pc' = [pc EXCEPT ![c] = l], UNCHANGED pending
    PROVE  LatchTypes' /\ StreamInv' /\ LatchInv' /\ EventsInv'
  <1>1. LatchTypes'
    BY KindNames DEF EndSession, EInv, LatchTypes, StreamInv
  <1>2. StreamInv'
    BY DEF EndSession, EInv, IInv, Types, LatchTypes, StreamInv
  <1>3. LatchInv'
    <2>1. CASE streaming[c]
      BY <2>1, KindNames DEF EndSession, EInv, IInv, Types, LatchTypes, LatchInv
    <2>2. CASE ~ streaming[c]
      BY <2>2, KindNames DEF EndSession, EInv, IInv, Types, LatchTypes, LatchInv
    <2> QED BY <2>1, <2>2
  <1>4. EventOK(Event("Ended", c))'
    BY KindNames DEF EventOK, Event
  <1>5. EventsInv'
    BY <1>4, OneEvent, NoEvents DEF EndSession
  <1> QED BY <1>1, <1>2, <1>3, <1>5

\* Steps that move no handler and touch no latch.
LEMMA StillStep ==
    ASSUME EInv, UNCHANGED <<pc, streaming, open, pending, told, shown>>
    PROVE  LatchTypes' /\ StreamInv' /\ LatchInv'
  BY DEF EInv, LatchTypes, StreamInv, LatchInv

\* Volume, Progress and Flushed are outside the latch and the start of a session.
LEMMA OtherEvent ==
    ASSUME NEW k \in {"Volume", "Progress", "Flushed"}, NEW d, events' = <<Event(k, d)>>
    PROVE  EventsInv'
  <1>1. EventOK(Event(k, d))'
    BY KindNames DEF EventOK, Event
  <1> QED BY <1>1, OneEvent

Rest == LatchTypes /\ StreamInv /\ LatchInv /\ EventsInv

LEMMA HandlerRest == ASSUME EInv, NEW c \in Conns, Handler(c) PROVE Rest'
  <1>1. CASE SetupFails(c)
    BY <1>1, QuietStep, NoEvents DEF SetupFails, Goto, Labels, sessionVars, Rest
  <1>2. CASE SetupStarts(c)
    BY <1>2, SetupStartsStep DEF Rest
  <1>3. CASE Replay(c)
    BY <1>3, ReplayStep DEF Rest
  <1>4. CASE Spawn(c)
    BY <1>4, QuietStep, NoEvents DEF Spawn, Goto, Labels, Rest
  <1>5. CASE SetupDone(c)
    BY <1>5, QuietStep, NoEvents DEF SetupDone, Goto, Labels, Rest
  <1>6. CASE TeardownReleases(c)
    BY <1>6, QuietStep, NoEvents DEF TeardownReleases, Goto, Labels, Rest
  <1>7. CASE TeardownEnds(c)
    BY <1>7, EndSessionStep DEF TeardownEnds, Goto, Rest
  <1>8. CASE DropPlayer(c)
    <2>1. ~ streaming[c]
      BY <1>8 DEF DropPlayer, EInv, StreamInv
    <2> QED BY <1>8, <2>1, QuietStep, NoEvents DEF DropPlayer, Goto, Labels, sessionVars, Rest
  <1>9. CASE DropGuard(c)
    <2>1. ~ streaming[c]
      BY <1>9 DEF DropGuard, EInv, StreamInv
    <2> QED BY <1>9, <2>1, QuietStep, NoEvents DEF DropGuard, Goto, Labels, Rest
  <1> QED BY <1>1, <1>2, <1>3, <1>4, <1>5, <1>6, <1>7, <1>8, <1>9 DEF Handler

LEMMA RequestRest == ASSUME EInv, NEW c \in Conns, Request(c) PROVE Rest'
  <1>1. CASE Announce(c)
    BY <1>1, StillStep, NoEvents DEF Announce, Rest
  <1>2. CASE Setup(c)
    BY <1>2, QuietStep, NoEvents DEF Setup, Goto, Labels, Rest
  <1>3. CASE SetVolume(c)
    BY <1>3, StillStep, OtherEvent DEF SetVolume, sessionVars, Rest
  <1>4. CASE SetProgress(c)
    BY <1>4, StillStep, OtherEvent DEF SetProgress, Rest
  <1>5. CASE Flush(c)
    BY <1>5, StillStep, OtherEvent DEF Flush, sessionVars, Rest
  <1>6. CASE \E k \in Kinds, v \in Values : SetDecoration(c, k, v)
    BY <1>6, SetDecorationStep DEF Rest
  <1>7. CASE Teardown(c)
    BY <1>7, QuietStep, NoEvents DEF Teardown, Goto, Labels, sessionVars, Rest
  <1> QED BY <1>1, <1>2, <1>3, <1>4, <1>5, <1>6, <1>7 DEF Request, Dispatch

LEMMA ConnectionRest ==
    ASSUME EInv, NEW c \in Conns, Connect(c) \/ Close(c) \/ AudioTask(c) PROVE Rest'
  <1>1. CASE Connect(c)
    BY <1>1, ConnectStep, NoEvents DEF Connect, Rest
  <1>2. CASE Close(c)
    BY <1>2, EndSessionStep DEF Close, Goto, Rest
  <1>3. CASE AudioTask(c)
    BY <1>3, StillStep, NoEvents DEF AudioTask, TaskFlushes, sessionVars, Rest
  <1> QED BY <1>1, <1>2, <1>3

LEMMA PlaybackRest == ASSUME EInv, NEW t \in Threads, Playback(t) PROVE Rest'
  <1>1. UNCHANGED <<pc, streaming, open, pending, told, shown>>
    BY DEF Playback, TakeFrame, CopyTrack, ReportPosition, SkipReport, PlayerFlushes,
           StopThread, DrainEnds, ThreadEnds, MoveThread, sessionVars
  <1>2. EventsInv'
    BY NoEvents, OtherEvent
       DEF Playback, TakeFrame, CopyTrack, ReportPosition, SkipReport, PlayerFlushes,
           StopThread, DrainEnds, ThreadEnds
  <1> QED BY <1>1, <1>2, StillStep DEF Rest

LEMMA NextEInv == EInv /\ [Next]_vars => EInv'
  <1> SUFFICES ASSUME EInv, [Next]_vars PROVE EInv'
    OBVIOUS
  <1>1. IInv'
    BY NextIInv DEF EInv
  <1>2. Rest'
    <2>1. CASE \E c \in Conns :
                  Connect(c) \/ Request(c) \/ Close(c) \/ Handler(c) \/ AudioTask(c)
      BY <2>1, HandlerRest, RequestRest, ConnectionRest
    <2>2. CASE \E t \in Threads : Playback(t)
      BY <2>2, PlaybackRest
    <2>3. CASE UNCHANGED vars
      <3>1. UNCHANGED <<pc, streaming, open, pending, told, shown>>
        BY <2>3 DEF vars
      <3>2. EventsInv'
        BY <2>3 DEF vars, EInv, EventsInv, EventOK
      <3> QED BY <3>1, <3>2, StillStep DEF Rest
    <2> QED BY <2>1, <2>2, <2>3 DEF Next
  <1> QED BY <1>1, <1>2 DEF EInv, Rest

LEMMA InductiveE == Spec => []EInv
  <1> QED BY InitEInv, NextEInv, PTL DEF Spec

\* SessionStarted is reported only while no sink of another connection is
\* alive: the SETUP that sends it holds the slot (handle_setup).
THEOREM StartedAloneTheorem == Spec => []StartedAlone
  <1>1. EInv => StartedAlone
    BY DEF EInv, IInv, Exclusive, ThreadsOwned, Owned, EventsInv, EventOK,
           StartedAlone, Live
  <1> QED BY <1>1, InductiveE, PTL

\* Metadata and Artwork reach the host only inside their session, replayed
\* after SETUP when they came before it (set_metadata, set_artwork).
THEOREM DecorationTheorem == Spec => []DecorationInsideSession
  <1>1. EInv => DecorationInsideSession
    BY DEF EInv, EventsInv, EventOK, DecorationInsideSession
  <1> QED BY <1>1, InductiveE, PTL

\* Between two requests of a streaming sender the host shows what it last
\* said: the latest latched value wins, and no value outlives its session.
THEOREM UpToDateTheorem == Spec => []HostIsUpToDate
  <1>1. ASSUME EInv, NEW c \in Conns, pc[c] = "idle", streaming[c]
        PROVE  shown[c] = told[c]
    <2>1. \A k \in Kinds : shown[c][k] = told[c][k]
      BY <1>1, KindNames DEF EInv, LatchInv
    <2>2. shown[c] \in Contents /\ told[c] \in Contents
      BY <1>1 DEF EInv, LatchTypes
    <2>3. shown[c] = [k \in Kinds |-> shown[c][k]] /\ told[c] = [k \in Kinds |-> told[c][k]]
      BY <2>2 DEF Contents
    <2> QED BY <2>1, <2>3
  <1>2. EInv => HostIsUpToDate
    BY <1>1 DEF HostIsUpToDate
  <1> QED BY <1>2, InductiveE, PTL

------------------------------------------------------------------------------
(* Which session a thread, the slot and an event belong to. *)

\* A connection that streams holds the slot, until TEARDOWN gave it back; its
\* threads live inside the session, or while its connection is dropped.
HeldInv ==
    \A c \in Conns :
        /\ streaming[c] => guard[c] \/ pc[c] = "tdEnd"
        /\ pc[c] \in {"replay", "spawn", "swap"} => streaming[c]

InSession(c) == streaming[c] \/ pc[c] \in {"drop", "dropJoin"}

PlaysInv ==
    \A t \in Threads : thread[t].state # "free" =>
        InSession(thread[t].conn) /\ pc[thread[t].conn] # "tdEnd"

ProgressInv ==
    \A k \in 1..Len(events) :
        events[k].kind = "Progress" => InSession(events[k].conn)

HInv == EInv /\ HeldInv /\ PlaysInv /\ ProgressInv

\* Steps that move one handler and leave its session, the slot and the threads.
LEMMA HeldMoves ==
    ASSUME HInv, NEW c \in Conns, NEW l \in Labels, pc' = [pc EXCEPT ![c] = l],
           UNCHANGED <<guard, streaming>>,
           \A t \in Threads : /\ thread'[t].conn = thread[t].conn
                              /\ thread'[t].state = thread[t].state,
           pc[c] \notin {"tdEnd", "drop", "dropJoin"} \/ (pc[c] = "drop" /\ l = "dropJoin"),
           l # "tdEnd", l \in {"replay", "spawn", "swap"} => streaming[c]
    PROVE  HeldInv' /\ PlaysInv'
  <1>1. HeldInv'
    BY DEF HInv, EInv, IInv, Types, LatchTypes, HeldInv
  <1>2. PlaysInv'
    BY DEF HInv, EInv, IInv, Types, LatchTypes, ThreadsOwned, Owned, PlaysInv, InSession
  <1> QED BY <1>1, <1>2

\* Steps that move no handler, where a thread may go on or end.
LEMMA HeldStays ==
    ASSUME HInv, UNCHANGED <<pc, guard, streaming>>,
           \A t \in Threads : thread'[t].state # "free" =>
              thread[t].state # "free" /\ thread'[t].conn = thread[t].conn
    PROVE  HeldInv' /\ PlaysInv'
  BY DEF HInv, HeldInv, PlaysInv, InSession

\* The slot is given back after the join, by TEARDOWN or the drop.
LEMMA HeldReleases ==
    ASSUME HInv, NEW c \in Conns, NEW l \in {"tdEnd", "closed"},
           pc[c] = IF l = "tdEnd" THEN "tdJoin" ELSE "dropJoin",
           PlayerGone(c), guard' = [guard EXCEPT ![c] = FALSE],
           pc' = [pc EXCEPT ![c] = l], UNCHANGED <<streaming, thread>>
    PROVE  HeldInv' /\ PlaysInv'
  <1>1. pc[c] = "dropJoin" => ~ streaming[c]
    BY DEF HInv, EInv, StreamInv
  <1>2. HeldInv'
    BY <1>1 DEF HInv, EInv, IInv, Types, LatchTypes, HeldInv
  <1>3. ASSUME NEW t \in Threads, thread[t].state # "free"
        PROVE  InSession(thread[t].conn)' /\ (pc[thread[t].conn] # "tdEnd")'
    <2>1. Owned(t) /\ InSession(thread[t].conn) /\ pc[thread[t].conn] # "tdEnd"
      BY <1>3 DEF HInv, EInv, IInv, ThreadsOwned, PlaysInv
    <2>2. thread[t].conn # c
      BY <1>3, <2>1, NoneIsNothing
         DEF Owned, PlayerGone, HInv, EInv, IInv, HandlerInv
    <2> QED BY <2>1, <2>2 DEF HInv, EInv, IInv, Types, InSession, Owned
  <1> QED BY <1>2, <1>3 DEF PlaysInv

\* The end of a session: no thread is left when TEARDOWN reports it, and the
\* drop of a closing connection has them still.
LEMMA HeldEnds ==
    ASSUME HInv, NEW c \in Conns, NEW l \in {"idle", "drop"},
           pc[c] = "tdEnd" \/ l = "drop", EndSession(c), pc' = [pc EXCEPT ![c] = l],
           UNCHANGED <<guard, thread>>
    PROVE  HeldInv' /\ PlaysInv'
  <1>1. streaming' = [streaming EXCEPT ![c] = FALSE]
    BY DEF EndSession
  <1>2. HeldInv'
    BY <1>1 DEF HInv, EInv, IInv, Types, LatchTypes, HeldInv
  <1>3. PlaysInv'
    BY <1>1 DEF HInv, EInv, IInv, Types, LatchTypes, ThreadsOwned, Owned,
                PlaysInv, InSession
  <1> QED BY <1>2, <1>3

LEMMA HeldSetupStarts ==
    ASSUME HInv, NEW c \in Conns, SetupStarts(c) PROVE HeldInv' /\ PlaysInv'
  <1>1. guard[c]
    BY DEF SetupStarts, HInv, EInv, IInv, HandlerInv
  <1>2. HeldInv'
    BY <1>1 DEF SetupStarts, Goto, HInv, EInv, IInv, Types, LatchTypes, HeldInv
  <1>3. PlaysInv'
    BY DEF SetupStarts, Goto, HInv, EInv, IInv, Types, LatchTypes, ThreadsOwned,
           Owned, PlaysInv, InSession
  <1> QED BY <1>2, <1>3

LEMMA HeldSpawn == ASSUME HInv, NEW c \in Conns, Spawn(c) PROVE HeldInv' /\ PlaysInv'
  <1>1. /\ pc[c] = "spawn" /\ streaming[c] /\ UNCHANGED <<guard, streaming>>
        /\ pc' = [pc EXCEPT ![c] = "swap"]
    BY DEF Spawn, Goto, HInv, HeldInv
  <1>2. PICK t \in Threads, b \in {"run", "drain"} :
           thread' = [Halted(c) EXCEPT
                         ![t] = [conn |-> c, state |-> b, stop |-> FALSE]]
    BY SpawnsOne
  <1>3. \A u \in Threads :
          /\ u = t => thread'[u].conn = c
          /\ u # t => /\ thread'[u].conn = thread[u].conn
                      /\ thread'[u].state = thread[u].state
    BY <1>2, HaltedKeeps DEF HInv, EInv, IInv, Types
  <1>4. HeldInv'
    BY <1>1 DEF HInv, EInv, IInv, Types, LatchTypes, HeldInv
  <1>5. PlaysInv'
    BY <1>1, <1>3 DEF HInv, EInv, IInv, Types, LatchTypes, ThreadsOwned, Owned,
                      PlaysInv, InSession
  <1> QED BY <1>4, <1>5

LEMMA HeldNext == ASSUME HInv, [Next]_vars PROVE HeldInv' /\ PlaysInv'
  <1>1. ASSUME NEW c \in Conns, Handler(c) PROVE HeldInv' /\ PlaysInv'
    <2>1. CASE SetupFails(c)
      BY <2>1, HeldMoves DEF SetupFails, Goto, Labels, sessionVars
    <2>2. CASE SetupStarts(c)
      BY <2>2, HeldSetupStarts
    <2>3. CASE Replay(c)
      <3>1. streaming[c]
        BY <2>3 DEF Replay, HInv, HeldInv
      <3> QED BY <2>3, <3>1, HeldMoves DEF Replay, Goto, Labels
    <2>4. CASE Spawn(c)
      BY <2>4, HeldSpawn
    <2>5. CASE SetupDone(c)
      BY <2>5, HeldMoves DEF SetupDone, Goto, Labels
    <2>6. CASE TeardownReleases(c)
      BY <2>6, HeldReleases DEF TeardownReleases, Goto
    <2>7. CASE TeardownEnds(c)
      BY <2>7, HeldEnds DEF TeardownEnds, Goto
    <2>8. CASE DropPlayer(c)
      <3>1. \A t \in Threads : /\ thread'[t].conn = thread[t].conn
                               /\ thread'[t].state = thread[t].state
        BY <2>8, HaltedKeeps DEF DropPlayer, HInv, EInv, IInv
      <3> QED BY <2>8, <3>1, HeldMoves DEF DropPlayer, Goto, Labels, sessionVars
    <2>9. CASE DropGuard(c)
      BY <2>9, HeldReleases DEF DropGuard, Goto
    <2> QED BY <1>1, <2>1, <2>2, <2>3, <2>4, <2>5, <2>6, <2>7, <2>8, <2>9 DEF Handler
  <1>2. ASSUME NEW c \in Conns, Request(c) PROVE HeldInv' /\ PlaysInv'
    <2>1. CASE Setup(c)
      <3>1. HeldInv'
        BY <2>1 DEF Setup, Goto, HInv, EInv, IInv, Types, LatchTypes, HeldInv
      <3>2. PlaysInv'
        BY <2>1 DEF Setup, Goto, HInv, EInv, IInv, Types, ThreadsOwned, Owned,
                    PlaysInv, InSession
      <3> QED BY <3>1, <3>2
    <2>2. CASE Teardown(c)
      <3>1. \A t \in Threads : /\ thread'[t].conn = thread[t].conn
                               /\ thread'[t].state = thread[t].state
        BY <2>2, HaltedKeeps DEF Teardown, HInv, EInv, IInv
      <3> QED BY <2>2, <3>1, HeldMoves DEF Teardown, Goto, Labels, sessionVars
    <2>3. CASE \/ Announce(c) \/ SetVolume(c) \/ SetProgress(c) \/ Flush(c)
               \/ \E k \in Kinds, v \in Values : SetDecoration(c, k, v)
      BY <2>3, HeldStays
         DEF Announce, SetVolume, SetProgress, Flush, SetDecoration, sessionVars
    <2> QED BY <1>2, <2>1, <2>2, <2>3 DEF Request, Dispatch
  <1>3. ASSUME NEW c \in Conns, Connect(c) PROVE HeldInv' /\ PlaysInv'
    BY <1>3, HeldMoves DEF Connect, Goto, Labels
  <1>4. ASSUME NEW c \in Conns, Close(c) PROVE HeldInv' /\ PlaysInv'
    BY <1>4, HeldEnds DEF Close, Goto
  <1>5. ASSUME NEW c \in Conns, AudioTask(c) PROVE HeldInv' /\ PlaysInv'
    BY <1>5, HeldStays DEF AudioTask, TaskFlushes, sessionVars
  <1>6. ASSUME NEW t \in Threads, Playback(t) PROVE HeldInv' /\ PlaysInv'
    <2>1. UNCHANGED <<pc, guard, streaming>>
      BY <1>6 DEF Playback, TakeFrame, CopyTrack, ReportPosition, SkipReport,
                  PlayerFlushes, StopThread, DrainEnds, ThreadEnds, MoveThread, sessionVars
    <2>2. \A u \in Threads : thread'[u].state # "free" =>
             thread[u].state # "free" /\ thread'[u].conn = thread[u].conn
      BY <1>6 DEF Playback, TakeFrame, CopyTrack, ReportPosition, SkipReport,
                  PlayerFlushes, StopThread, DrainEnds, ThreadEnds, MoveThread, Free, HInv, EInv, IInv, Types
    <2> QED BY <2>1, <2>2, HeldStays
  <1>7. CASE UNCHANGED vars
    BY <1>7, HeldStays DEF vars
  <1> QED BY <1>1, <1>2, <1>3, <1>4, <1>5, <1>6, <1>7 DEF Next

\* A Progress event comes from a request inside the session or from a thread.
LEMMA ProgressNext == ASSUME HInv, [Next]_vars PROVE ProgressInv'
  <1>1. ASSUME NEW c \in Conns, Handler(c) PROVE ProgressInv'
    <2>1. CASE Replay(c)
      <3>1. PICK m \in {<<>>, <<Event("Metadata", c)>>},
                 a \in {<<>>, <<Event("Artwork", c)>>} : events' = m \o a
        BY <2>1 DEF Replay
      <3>2. \A k \in 1..Len(m \o a) : (m \o a)[k].kind \in {"Metadata", "Artwork"}
        BY DEF Event
      <3> QED BY <3>1, <3>2 DEF ProgressInv
    <2>2. CASE ~ Replay(c)
      <3>1. events' = <<>> \/ events' = <<Event("Started", c)>>
                          \/ events' = <<Event("Ended", c)>>
        BY <1>1, <2>2 DEF Handler, SetupFails, SetupStarts, Spawn, SetupDone,
           TeardownReleases, TeardownEnds, EndSession, DropPlayer, DropGuard
      <3> QED BY <3>1 DEF Event, ProgressInv
    <2> QED BY <2>1, <2>2
  <1>2. ASSUME NEW c \in Conns, Request(c) PROVE ProgressInv'
    <2>1. CASE SetProgress(c)
      BY <2>1 DEF SetProgress, Event, ProgressInv, InSession
    <2>2. CASE \E k \in Kinds, v \in Values : SetDecoration(c, k, v)
      BY <2>2, KindNames DEF SetDecoration, Event, ProgressInv
    <2>3. CASE Announce(c) \/ Setup(c) \/ SetVolume(c) \/ Flush(c) \/ Teardown(c)
      BY <2>3 DEF Announce, Setup, SetVolume, Flush, Teardown, Event, ProgressInv
    <2> QED BY <1>2, <2>1, <2>2, <2>3 DEF Request, Dispatch
  <1>3. ASSUME NEW c \in Conns, Connect(c) \/ Close(c) \/ AudioTask(c)
        PROVE  ProgressInv'
    BY <1>3 DEF Connect, Close, EndSession, AudioTask, TaskFlushes, Event, ProgressInv
  <1>4. ASSUME NEW t \in Threads, Playback(t) PROVE ProgressInv'
    <2>1. CASE ReportPosition(t)
      <3>1. /\ thread[t].state = "report" /\ UNCHANGED <<pc, streaming>>
            /\ events' = <<Event("Progress", thread[t].conn)>>
        BY <2>1 DEF ReportPosition, MoveThread, sessionVars
      <3>2. InSession(thread[t].conn)
        BY <3>1 DEF HInv, PlaysInv
      <3> QED BY <3>1, <3>2 DEF Event, ProgressInv, InSession
    <2>2. CASE ~ ReportPosition(t)
      BY <1>4, <2>2 DEF Playback, TakeFrame, CopyTrack, SkipReport, PlayerFlushes,
         StopThread, DrainEnds, ThreadEnds, ProgressInv
    <2> QED BY <2>1, <2>2
  <1>5. CASE UNCHANGED vars
    BY <1>5 DEF vars, HInv, ProgressInv, InSession
  <1> QED BY <1>1, <1>2, <1>3, <1>4, <1>5 DEF Next

LEMMA InductiveH == Spec => []HInv
  <1>1. Init => HInv
    BY InitEInv DEF Init, Free, HInv, HeldInv, PlaysInv, ProgressInv
  <1>2. HInv /\ [Next]_vars => HInv'
    BY NextEInv, HeldNext, ProgressNext DEF HInv
  <1> QED BY <1>1, <1>2, PTL DEF Spec

\* Two sessions overlap only while TEARDOWN of one of them has released the
\* slot and not yet reported its end (handle_teardown).
THEOREM OverlapTheorem == Spec => []OverlapOnlyInTeardown
  <1>1. HInv => OverlapOnlyInTeardown
    BY DEF HInv, HeldInv, EInv, IInv, Exclusive, OverlapOnlyInTeardown
  <1> QED BY <1>1, InductiveH, PTL

\* Progress is reported inside a session, or while the player of a closing
\* connection is still being stopped, and at no other time.
THEOREM ProgressTheorem == Spec => []ProgressEndsWithPlayer
  <1>1. HInv => ProgressEndsWithPlayer
    BY DEF HInv, ProgressInv, InSession, ProgressEndsWithPlayer
  <1> QED BY <1>1, InductiveH, PTL

------------------------------------------------------------------------------
(* A sender without the password. *)

\* What is true of the connection of a stranger, and what of a closed one that
\* a stranger may be the next to open.
Untouched(c) ==
    /\ ~ params[c] /\ ~ guard[c] /\ ~ streaming[c] /\ ~ track[c]
    /\ pending[c] = Nothing /\ player[c] = None /\ flushing[c] = "no"

SenderTypes ==
    /\ sender \in [Conns -> {"gone", "stranger", "guest", "authorized"}]
    /\ params \in [Conns -> BOOLEAN] /\ track \in [Conns -> BOOLEAN]
    /\ flushing \in [Conns -> {"no", "task", "player"}]

GateInv ==
    \A c \in Conns :
        /\ sender[c] = "stranger" => pc[c] = "idle" /\ Untouched(c)
        /\ pc[c] \in {"drop", "dropJoin", "closed"} => ~ track[c] /\ flushing[c] = "no"
        /\ pc[c] = "closed" => ~ guard[c] /\ player[c] = None

\* An event tells of a connection whose sender is no stranger.
GateEvents ==
    \A k \in 1..Len(events) :
        events[k].conn \in Conns /\ sender[events[k].conn] # "stranger"

SInv == HInv /\ SenderTypes /\ GateInv /\ GateEvents

\* Steps of a connection whose sender is none.
LEMMA GateStep ==
    ASSUME SInv, SenderTypes', NEW c \in Conns, sender'[c] # "stranger",
           \A d \in Conns \ {c} :
              /\ sender'[d] = sender[d] /\ pc'[d] = pc[d]
              /\ params'[d] = params[d] /\ guard'[d] = guard[d]
              /\ streaming'[d] = streaming[d] /\ track'[d] = track[d]
              /\ pending'[d] = pending[d] /\ player'[d] = player[d]
              /\ flushing'[d] = flushing[d],
           pc'[c] \in {"drop", "dropJoin", "closed"} => ~ track'[c] /\ flushing'[c] = "no",
           pc'[c] = "closed" => ~ guard'[c] /\ player'[c] = None
    PROVE  GateInv'
  BY DEF SInv, GateInv, Untouched

\* The handler of a connection runs for a sender that was let in, and so do
\* its audio task and its threads.
LEMMA NoStranger ==
    ASSUME SInv, NEW c \in Conns
    PROVE  /\ Handler(c) \/ AudioTask(c) => sender[c] # "stranger"
           /\ \A t \in Threads : thread[t].state # "free" /\ thread[t].conn = c
                                => sender[c] # "stranger"
  <1>1. Handler(c) => pc[c] # "idle"
    BY DEF Handler, SetupFails, SetupStarts, Replay, Spawn, SetupDone,
           TeardownReleases, TeardownEnds, DropPlayer, DropGuard
  <1>2. AudioTask(c) => flushing[c] = "task"
    BY DEF AudioTask, TaskFlushes
  <1> QED BY <1>1, <1>2 DEF SInv, GateInv, Untouched, HInv, PlaysInv, InSession

\* A request that is let in makes its sender authorized.
LEMMA RequestAuthorizes ==
    ASSUME SInv, NEW c \in Conns, Request(c)
    PROVE  sender' = [sender EXCEPT ![c] = "authorized"] /\ pc[c] = "idle"
  BY DEF Request, Admitted

LEMMA HandlerGate ==
    ASSUME SInv, NEW c \in Conns, Handler(c) PROVE SenderTypes' /\ GateInv'
  <1>1. sender' = sender /\ sender[c] # "stranger"
    BY NoStranger DEF Handler
  <1>2. CASE SetupFails(c) \/ SetupStarts(c) \/ Replay(c) \/ Spawn(c)
    <2>1. SenderTypes'
      BY <1>1, <1>2 DEF SetupFails, SetupStarts, Replay, Spawn, sessionVars,
                       SInv, SenderTypes
    <2> QED BY <1>1, <1>2, <2>1, GateStep
            DEF SetupFails, SetupStarts, Replay, Spawn, Goto, sessionVars,
                SInv, HInv, EInv, IInv, Types, LatchTypes
  <1>3. CASE SetupDone(c) \/ TeardownReleases(c)
    <2>1. SenderTypes'
      BY <1>1, <1>3 DEF SetupDone, TeardownReleases, SInv, SenderTypes
    <2>2. CASE SetupDone(c)
      BY <1>1, <2>2, <2>1, GateStep
         DEF SetupDone, Goto, SInv, SenderTypes, HInv, EInv, IInv, Types
    <2>3. CASE TeardownReleases(c)
      BY <1>1, <2>3, <2>1, GateStep
         DEF TeardownReleases, Goto, SInv, SenderTypes, HInv, EInv, IInv, Types
    <2> QED BY <1>3, <2>2, <2>3
  <1>4. CASE TeardownEnds(c)
    <2>1. SenderTypes'
      BY <1>1, <1>4 DEF TeardownEnds, EndSession, SInv, SenderTypes
    <2> QED BY <1>1, <1>4, <2>1, GateStep
            DEF TeardownEnds, EndSession, Goto,
                SInv, SenderTypes, HInv, EInv, IInv, Types, LatchTypes
  <1>5. CASE DropPlayer(c) \/ DropGuard(c)
    <2>1. SenderTypes'
      BY <1>1, <1>5 DEF DropPlayer, DropGuard, sessionVars, SInv, SenderTypes
    <2>2. ~ track[c] /\ flushing[c] = "no"
      BY <1>5 DEF DropPlayer, DropGuard, SInv, GateInv
    <2> QED BY <1>1, <1>5, <2>1, <2>2, GateStep
            DEF DropPlayer, DropGuard, Goto, sessionVars,
                SInv, HInv, EInv, IInv, Types
  <1> QED BY <1>2, <1>3, <1>4, <1>5 DEF Handler

LEMMA RequestGate ==
    ASSUME SInv, NEW c \in Conns, Request(c) PROVE SenderTypes' /\ GateInv'
  <1>1. sender' = [sender EXCEPT ![c] = "authorized"] /\ pc[c] = "idle"
    BY RequestAuthorizes
  <1>2. sender' \in [Conns -> {"gone", "stranger", "guest", "authorized"}]
        /\ sender'[c] = "authorized" /\ \A d \in Conns \ {c} : sender'[d] = sender[d]
    BY <1>1 DEF SInv, SenderTypes
  <1>3. CASE Announce(c) \/ SetProgress(c) \/ Flush(c)
    <2>1. SenderTypes'
      BY <1>2, <1>3 DEF Announce, SetProgress, Flush, sessionVars, SInv, SenderTypes
    <2> QED BY <1>1, <1>2, <1>3, <2>1, GateStep
            DEF Announce, SetProgress, Flush, sessionVars, SInv, SenderTypes
  <1>4. CASE Setup(c) \/ SetVolume(c) \/ Teardown(c)
    <2>1. SenderTypes'
      BY <1>2, <1>4 DEF Setup, SetVolume, Teardown, sessionVars, SInv, SenderTypes
    <2>2. /\ pc'[c] \in {"idle", "setup", "tdJoin"}
          /\ \A d \in Conns \ {c} : /\ pc'[d] = pc[d] /\ guard'[d] = guard[d]
                                    /\ flushing'[d] = flushing[d]
      BY <1>1, <1>4 DEF Setup, SetVolume, Teardown, Goto, sessionVars,
                        SInv, SenderTypes, HInv, EInv, IInv, Types
    <2>3. UNCHANGED <<params, streaming, track, pending, player>>
      BY <1>4 DEF Setup, SetVolume, Teardown, sessionVars
    <2> QED BY <1>2, <2>1, <2>2, <2>3, GateStep
  <1>5. CASE \E k \in Kinds, v \in Values : SetDecoration(c, k, v)
    <2>1. SenderTypes'
      BY <1>2, <1>5 DEF SetDecoration, SInv, SenderTypes
    <2>2. /\ UNCHANGED <<pc, params, guard, streaming, track, player, flushing>>
          /\ \A d \in Conns \ {c} : pending'[d] = pending[d]
      BY <1>5 DEF SetDecoration, SInv, HInv, EInv, LatchTypes
    <2> QED BY <1>1, <1>2, <2>1, <2>2, GateStep
  <1> QED BY <1>3, <1>4, <1>5 DEF Request, Dispatch

LEMMA ConnectionGate ==
    ASSUME SInv, NEW c \in Conns, Connect(c) \/ Close(c) \/ AudioTask(c)
    PROVE  SenderTypes' /\ GateInv'
  <1>1. CASE Connect(c)
    <2>1. SenderTypes'
      BY <1>1 DEF Connect, SInv, SenderTypes
    <2>2. Untouched(c)' /\ pc'[c] = "idle"
      BY <1>1 DEF Connect, Goto, Untouched, SInv, SenderTypes, GateInv,
                  HInv, EInv, IInv, Types, LatchTypes, StreamInv
    <2>3. \A d \in Conns \ {c} :
              /\ sender'[d] = sender[d] /\ pc'[d] = pc[d]
              /\ params'[d] = params[d] /\ pending'[d] = pending[d]
      BY <1>1 DEF Connect, Goto
    <2> QED BY <1>1, <2>1, <2>2, <2>3 DEF Connect, SInv, GateInv, Untouched
  <1>2. CASE Close(c)
    <2>1. SenderTypes'
      BY <1>2 DEF Close, EndSession, SInv, SenderTypes
    <2>2. /\ track' = [track EXCEPT ![c] = FALSE]
          /\ streaming' = [streaming EXCEPT ![c] = FALSE]
          /\ flushing' = [flushing EXCEPT ![c] = "no"]
          /\ sender' = [sender EXCEPT ![c] = "gone"]
          /\ pc' = [pc EXCEPT ![c] = "drop"]
          /\ UNCHANGED <<params, guard, pending, player>>
      BY <1>2 DEF Close, EndSession, Goto
    <2>3. /\ sender'[c] = "gone" /\ pc'[c] = "drop" /\ ~ track'[c] /\ flushing'[c] = "no"
          /\ \A d \in Conns \ {c} :
                /\ sender'[d] = sender[d] /\ pc'[d] = pc[d]
                /\ streaming'[d] = streaming[d] /\ track'[d] = track[d]
                /\ flushing'[d] = flushing[d]
      <3>1. /\ DOMAIN sender = Conns /\ DOMAIN pc = Conns /\ DOMAIN streaming = Conns
            /\ DOMAIN track = Conns /\ DOMAIN flushing = Conns
        BY DEF SInv, SenderTypes, HInv, EInv, IInv, Types, LatchTypes
      <3> QED BY <2>2, <3>1
    <2> QED BY <2>1, <2>2, <2>3, GateStep
  <1>3. CASE AudioTask(c)
    <2>1. sender[c] # "stranger"
      BY <1>3, NoStranger
    <2>2. SenderTypes'
      BY <1>3 DEF AudioTask, TaskFlushes, sessionVars, SInv, SenderTypes
    <2>3. flushing[c] = "task"
      BY <1>3 DEF AudioTask, TaskFlushes
    <2>4. pc[c] \notin {"drop", "dropJoin", "closed"}
      BY <2>3 DEF SInv, GateInv
    <2> QED BY <1>3, <2>1, <2>2, <2>4, GateStep
            DEF AudioTask, TaskFlushes, sessionVars, SInv, SenderTypes
  <1> QED BY <1>1, <1>2, <1>3

LEMMA PlaybackGate ==
    ASSUME SInv, NEW t \in Threads, Playback(t) PROVE SenderTypes' /\ GateInv'
  <1>1. UNCHANGED <<sender, pc, sessionVars>>
    BY DEF Playback, TakeFrame, CopyTrack, ReportPosition, SkipReport,
           PlayerFlushes, StopThread, DrainEnds, ThreadEnds, MoveThread
  <1>2. CASE UNCHANGED flushing
    BY <1>1, <1>2 DEF sessionVars, SInv, SenderTypes, GateInv, Untouched
  <1>3. CASE PlayerFlushes(t)
    <2>1. flushing' = [flushing EXCEPT ![thread[t].conn] = "no"]
      BY <1>3 DEF PlayerFlushes
    <2> QED BY <1>1, <2>1 DEF sessionVars, SInv, SenderTypes, GateInv, Untouched
  <1> QED BY <1>2, <1>3 DEF Playback, TakeFrame, CopyTrack, ReportPosition, SkipReport,
                            StopThread, DrainEnds, ThreadEnds, MoveThread

LEMMA EventsOf ==
    ASSUME NEW c \in Conns, sender'[c] # "stranger",
           \A k \in 1..Len(events') : events'[k].conn = c
    PROVE  GateEvents'
  BY DEF GateEvents

LEMMA GateEventsNext == ASSUME SInv, [Next]_vars PROVE GateEvents'
  <1>1. ASSUME NEW c \in Conns, Handler(c) PROVE GateEvents'
    <2>1. sender'[c] # "stranger"
      BY <1>1, NoStranger DEF Handler
    <2>2. CASE Replay(c)
      <3>1. PICK m \in {<<>>, <<Event("Metadata", c)>>},
                 a \in {<<>>, <<Event("Artwork", c)>>} : events' = m \o a
        BY <2>2 DEF Replay
      <3>2. \A k \in 1..Len(m \o a) : (m \o a)[k].conn = c
        BY DEF Event
      <3> QED BY <2>1, <3>1, <3>2, EventsOf
    <2>3. CASE ~ Replay(c)
      <3>1. events' = <<>> \/ events' = <<Event("Started", c)>>
                          \/ events' = <<Event("Ended", c)>>
        BY <1>1, <2>3 DEF Handler, SetupFails, SetupStarts, Spawn, SetupDone,
           TeardownReleases, TeardownEnds, EndSession, DropPlayer, DropGuard
      <3>2. \A k \in 1..Len(events') : events'[k].conn = c
        BY <3>1 DEF Event
      <3> QED BY <2>1, <3>2, EventsOf
    <2> QED BY <2>2, <2>3
  <1>2. ASSUME NEW c \in Conns, Request(c) PROVE GateEvents'
    <2>1. sender'[c] # "stranger"
      BY <1>2, RequestAuthorizes DEF SInv, SenderTypes
    <2>2. events' = <<>> \/ \E k \in EventKinds \cup Kinds : events' = <<Event(k, c)>>
      BY <1>2 DEF Request, Dispatch, Announce, Setup, SetVolume, SetProgress, Flush,
                  SetDecoration, Teardown, EventKinds
    <2>3. \A k \in 1..Len(events') : events'[k].conn = c
      BY <2>2 DEF Event
    <2> QED BY <2>1, <2>3, EventsOf
  <1>3. ASSUME NEW c \in Conns, Close(c) PROVE GateEvents'
    <2>1. sender'[c] = "gone"
      BY <1>3 DEF Close, SInv, SenderTypes
    <2>2. events' = <<>> \/ events' = <<Event("Ended", c)>>
      BY <1>3 DEF Close, EndSession
    <2>3. \A k \in 1..Len(events') : events'[k].conn = c
      BY <2>2 DEF Event
    <2> QED BY <2>1, <2>3, EventsOf
  <1>4. ASSUME NEW c \in Conns, Connect(c) \/ AudioTask(c) PROVE GateEvents'
    BY <1>4 DEF Connect, AudioTask, TaskFlushes, GateEvents
  <1>5. ASSUME NEW t \in Threads, Playback(t) PROVE GateEvents'
    <2>1. CASE ReportPosition(t)
      <3> DEFINE c == thread[t].conn
      <3>1. /\ thread[t].state # "free" /\ sender' = sender
            /\ events' = <<Event("Progress", c)>>
        BY <1>5, <2>1 DEF Playback, ReportPosition, MoveThread
      <3>2. c \in Conns
        BY <3>1 DEF SInv, HInv, EInv, IInv, ThreadsOwned, Owned
      <3>3. sender'[c] # "stranger"
        BY <3>1, <3>2, NoStranger
      <3>4. \A k \in 1..Len(events') : events'[k].conn = c
        BY <3>1 DEF Event
      <3> QED BY <3>2, <3>3, <3>4, EventsOf
    <2>2. CASE ~ ReportPosition(t)
      BY <1>5, <2>2 DEF Playback, TakeFrame, CopyTrack, SkipReport, PlayerFlushes,
         StopThread, DrainEnds, ThreadEnds, GateEvents
    <2> QED BY <2>1, <2>2
  <1>6. CASE UNCHANGED vars
    BY <1>6 DEF vars, SInv, GateEvents
  <1> QED BY <1>1, <1>2, <1>3, <1>4, <1>5, <1>6 DEF Next

LEMMA InitSInv == Init => SInv
  <1>1. Init => HInv
    BY InitEInv DEF Init, Free, HInv, HeldInv, PlaysInv, ProgressInv
  <1>2. ASSUME Init PROVE SenderTypes /\ GateInv /\ GateEvents
    <2>1. SenderTypes /\ GateEvents
      BY <1>2 DEF Init, SenderTypes, GateEvents
    <2>2. GateInv
      BY <1>2 DEF Init, GateInv
    <2> QED BY <2>1, <2>2
  <1> QED BY <1>1, <1>2 DEF SInv

LEMMA NextSInv == SInv /\ [Next]_vars => SInv'
  <1> SUFFICES ASSUME SInv, [Next]_vars PROVE SInv'
    OBVIOUS
  <1>1. HInv'
    BY NextEInv, HeldNext, ProgressNext DEF SInv, HInv
  <1>2. SenderTypes' /\ GateInv'
    <2>1. CASE \E c \in Conns :
                  Connect(c) \/ Request(c) \/ Close(c) \/ Handler(c) \/ AudioTask(c)
      BY <2>1, HandlerGate, RequestGate, ConnectionGate
    <2>2. CASE \E t \in Threads : Playback(t)
      BY <2>2, PlaybackGate
    <2>3. CASE UNCHANGED vars
      BY <2>3 DEF vars, SInv, SenderTypes, GateInv, Untouched
    <2> QED BY <2>1, <2>2, <2>3 DEF Next
  <1> QED BY <1>1, <1>2, GateEventsNext DEF SInv

\* Nothing happens for a sender without the password: no slot, sink, thread,
\* latch or event (authenticate, which dispatch calls before any method).
THEOREM StrangersTheorem == Spec => []StrangersGetNothing
  <1>1. SInv => StrangersGetNothing
    <2> SUFFICES ASSUME SInv, NEW c \in Conns, sender[c] = "stranger"
                 PROVE  /\ Untouched(c) /\ \A t \in Live : thread[t].conn # c
                        /\ \A k \in 1..Len(events) : events[k].conn # c
      BY DEF StrangersGetNothing, Untouched
    <2> QED BY NoStranger DEF SInv, GateInv, GateEvents, Live
  <1> QED BY <1>1, InitSInv, NextSInv, PTL DEF Spec

------------------------------------------------------------------------------
(* Types.  A thread that ended is as it was at first, because the stop flag *)
(* is set of a thread that runs and of no other: the player of a connection *)
(* runs until its handler waits for it.                                     *)

Joining == {"tdJoin", "dropJoin"}

PlayersRun ==
    \A c \in Conns : player[c] # None /\ pc[c] \notin Joining =>
        LET p == thread[player[c]]
        IN  p.state # "free" /\ p.conn = c /\ ~ p.stop

Freed == \A t \in Threads : thread[t].state = "free" => thread[t] = Free

EventTypes == events \in Seq([kind : EventKinds, conn : Conns])

TInv == SInv /\ PlayersRun /\ Freed /\ EventTypes

\* Steps that leave the threads and the players alone.
LEMMA SameThreads ==
    ASSUME TInv, UNCHANGED <<player, thread>>,
           \A c \in Conns : pc[c] \in Joining => pc'[c] \in Joining
    PROVE  PlayersRun' /\ Freed'
  BY DEF TInv, PlayersRun, Freed

\* The stop flag of a player that its handler is about to wait for.
LEMMA HaltedPlayer ==
    ASSUME TInv, NEW c \in Conns, pc[c] \notin Joining
    PROVE  /\ \A t \in Threads : t # player[c] => Halted(c)[t] = thread[t]
           /\ \A t \in Threads : Halted(c)[t].state = "free" => Halted(c)[t] = Free
  <1>1. CASE player[c] = None
    BY <1>1, NoneIsNothing DEF Halted, TInv, Freed
  <1>2. CASE player[c] # None
    <2>1. /\ player[c] \in Threads /\ thread[player[c]].state # "free"
          /\ Halted(c) = [thread EXCEPT ![player[c]].stop = TRUE]
      BY <1>2 DEF Halted, TInv, PlayersRun, SInv, HInv, EInv, IInv, Types
    <2>2. Halted(c)[player[c]].state = thread[player[c]].state
      BY HaltedKeeps, <2>1 DEF TInv, SInv, HInv, EInv, IInv
    <2> QED BY <2>1, <2>2 DEF TInv, Freed, SInv, HInv, EInv, IInv, Types
  <1> QED BY <1>1, <1>2

\* No two connections have one player.
LEMMA PlayersDiffer ==
    ASSUME TInv, NEW c \in Conns, NEW d \in Conns, c # d, player[c] # None,
           pc[c] \notin Joining, pc[d] \notin Joining
    PROVE  player[c] # player[d]
  BY DEF TInv, PlayersRun

LEMMA HandlerThreads ==
    ASSUME TInv, NEW c \in Conns, Handler(c)
    PROVE  PlayersRun' /\ Freed'
  <1>1. /\ pc \in [Conns -> Labels] /\ player \in [Conns -> Threads \cup {None}]
        /\ Types
    BY DEF TInv, SInv, HInv, EInv, IInv, Types
  <1>2. CASE SetupFails(c) \/ SetupStarts(c) \/ Replay(c) \/ SetupDone(c) \/ TeardownEnds(c)
    <2>1. /\ UNCHANGED <<player, thread>> /\ pc[c] \notin Joining
          /\ \E l \in Labels : pc' = [pc EXCEPT ![c] = l]
      BY <1>2 DEF SetupFails, SetupStarts, Replay, SetupDone, TeardownEnds, Goto,
                  sessionVars, Joining, Labels
    <2> QED BY <1>1, <2>1, SameThreads
  <1>3. CASE Spawn(c)
    <2>1. PICK t \in Threads, b \in {"run", "drain"} :
            /\ thread[t].state = "free"
            /\ thread' = [Halted(c) EXCEPT
                             ![t] = [conn |-> c, state |-> b, stop |-> FALSE]]
            /\ player' = [player EXCEPT ![c] = t]
      BY <1>3, SpawnsOne
    <2>2. pc[c] = "spawn" /\ pc' = [pc EXCEPT ![c] = "swap"] /\ pc[c] \notin Joining
      BY <1>3 DEF Spawn, Goto, Joining
    <2>3. \A u \in Threads : thread'[u] =
             IF u = t THEN [conn |-> c, state |-> b, stop |-> FALSE] ELSE Halted(c)[u]
      BY <1>1, <2>1, HaltedKeeps
    <2>4. Freed'
      BY <2>2, <2>3, HaltedPlayer DEF Freed
    <2>5. ASSUME NEW d \in Conns, player'[d] # None, pc'[d] \notin Joining
          PROVE  LET p == thread'[player'[d]]
                 IN  p.state # "free" /\ p.conn = d /\ ~ p.stop
      <3>1. CASE d = c
        BY <1>1, <2>1, <2>3, <3>1
      <3>2. CASE d # c
        <4>1. /\ player'[d] = player[d] /\ pc'[d] = pc[d] /\ player[d] \in Threads
          BY <1>1, <2>1, <2>2, <2>5, <3>2
        <4>2. LET p == thread[player[d]] IN p.state # "free" /\ p.conn = d /\ ~ p.stop
          BY <2>5, <4>1 DEF TInv, PlayersRun
        <4>3. player[d] # t /\ player[d] # player[c]
          BY <2>1, <2>2, <2>5, <3>2, <4>1, <4>2, PlayersDiffer
        <4> QED BY <2>2, <2>3, <4>1, <4>2, <4>3, HaltedPlayer
      <3> QED BY <3>1, <3>2
    <2> QED BY <2>4, <2>5 DEF PlayersRun
  <1>4. CASE TeardownReleases(c) \/ DropGuard(c)
    <2>1. /\ player' = [player EXCEPT ![c] = None] /\ thread' = thread
          /\ \E l \in Labels : pc' = [pc EXCEPT ![c] = l]
      BY <1>4 DEF TeardownReleases, DropGuard, Goto, Labels
    <2> QED BY <1>1, <2>1 DEF TInv, PlayersRun, Freed
  <1>5. CASE DropPlayer(c)
    <2>1. /\ pc[c] \notin Joining /\ pc' = [pc EXCEPT ![c] = "dropJoin"]
          /\ thread' = Halted(c) /\ player' = player
      BY <1>5 DEF DropPlayer, Goto, Joining, sessionVars
    <2> QED BY <1>1, <2>1, HaltedPlayer, PlayersDiffer DEF TInv, PlayersRun, Freed, Joining
  <1> QED BY <1>2, <1>3, <1>4, <1>5 DEF Handler

LEMMA ThreadsNext == ASSUME TInv, [Next]_vars PROVE PlayersRun' /\ Freed'
  <1>1. pc \in [Conns -> Labels] /\ player \in [Conns -> Threads \cup {None}] /\ Types
    BY DEF TInv, SInv, HInv, EInv, IInv, Types
  <1>2. ASSUME NEW c \in Conns, Handler(c) PROVE PlayersRun' /\ Freed'
    BY <1>2, HandlerThreads
  <1>3. ASSUME NEW c \in Conns, Request(c), ~ Teardown(c) PROVE PlayersRun' /\ Freed'
    <2>1. /\ UNCHANGED <<player, thread>> /\ pc[c] \notin Joining
          /\ pc' = pc \/ \E l \in Labels : pc' = [pc EXCEPT ![c] = l]
      BY <1>3 DEF Request, Dispatch, Announce, Setup, SetVolume, SetProgress, Flush,
                  SetDecoration, Admitted, Goto, sessionVars, Joining, Labels
    <2> QED BY <1>1, <2>1, SameThreads
  <1>4. ASSUME NEW c \in Conns, Teardown(c) PROVE PlayersRun' /\ Freed'
    <2>1. /\ pc[c] \notin Joining /\ pc' = [pc EXCEPT ![c] = "tdJoin"]
          /\ thread' = Halted(c) /\ player' = player
      BY <1>4 DEF Teardown, Goto, Joining, sessionVars
    <2> QED BY <1>1, <2>1, HaltedPlayer, PlayersDiffer DEF TInv, PlayersRun, Freed, Joining
  <1>5. ASSUME NEW c \in Conns, Connect(c) \/ Close(c) \/ AudioTask(c)
        PROVE  PlayersRun' /\ Freed'
    <2>1. /\ UNCHANGED <<player, thread>>
          /\ \/ pc' = pc
             \/ pc[c] \notin Joining /\ \E l \in Labels : pc' = [pc EXCEPT ![c] = l]
      BY <1>5 DEF Connect, Close, AudioTask, TaskFlushes, EndSession, Goto, sessionVars,
                  Joining, Labels
    <2> QED BY <1>1, <2>1, SameThreads
  <1>6. ASSUME NEW t \in Threads, Playback(t) PROVE PlayersRun' /\ Freed'
    <2>1. CASE PlayerFlushes(t)
      BY <2>1, SameThreads DEF PlayerFlushes, sessionVars
    <2>2. CASE StopThread(t) \/ DrainEnds(t)
      <3>1. /\ thread[t].stop /\ thread' = [thread EXCEPT ![t] = Free]
            /\ UNCHANGED <<pc, player>>
        BY <2>2 DEF StopThread, DrainEnds, ThreadEnds, sessionVars
      <3> QED BY <1>1, <3>1 DEF TInv, PlayersRun, Freed, Types
    <2>3. ASSUME NEW from \in {"run", "playing", "report"},
                 NEW to \in {"run", "playing", "report"}, MoveThread(t, from, to)
          PROVE  PlayersRun' /\ Freed'
      <3>1. /\ thread' = [thread EXCEPT ![t].state = to] /\ UNCHANGED <<pc, player>>
        BY <2>3 DEF MoveThread, sessionVars
      <3>2. \A u \in Threads :
              /\ thread'[u].conn = thread[u].conn /\ thread'[u].stop = thread[u].stop
              /\ u = t => thread'[u].state = to
              /\ u # t => thread'[u] = thread[u]
        BY <1>1, <3>1 DEF Types
      <3> QED BY <1>1, <3>1, <3>2 DEF TInv, PlayersRun, Freed
    <2> QED BY <1>6, <2>1, <2>2, <2>3
          DEF Playback, TakeFrame, CopyTrack, ReportPosition, SkipReport
  <1>7. CASE UNCHANGED vars
    BY <1>7, SameThreads DEF vars
  <1> QED BY <1>2, <1>3, <1>4, <1>5, <1>6, <1>7 DEF Next

LEMMA EventTypesNext == ASSUME TInv, [Next]_vars PROVE EventTypes'
  <1> DEFINE E == [kind : EventKinds, conn : Conns]
  <1>1. ASSUME NEW kind \in EventKinds, NEW c \in Conns
        PROVE  Event(kind, c) \in E /\ <<Event(kind, c)>> \in Seq(E)
    BY DEF Event
  <1>2. <<>> \in Seq(E)
    OBVIOUS
  <1> HIDE DEF E
  <1>3. SUFFICES ASSUME ~ UNCHANGED vars PROVE events' \in Seq(E)
    BY DEF E, EventTypes, TInv, vars
  <1>4. ASSUME NEW c \in Conns, Replay(c) PROVE events' \in Seq(E)
    <2>1. PICK m \in {<<>>, <<Event("Metadata", c)>>},
               a \in {<<>>, <<Event("Artwork", c)>>} : events' = m \o a
      BY <1>4 DEF Replay
    <2>2. m \in Seq(E) /\ a \in Seq(E)
      BY <1>1, <1>2 DEF EventKinds
    <2> QED BY <2>1, <2>2
  <1>5. ASSUME NEW c \in Conns, Handler(c), ~ Replay(c) PROVE events' \in Seq(E)
    <2>1. events' \in {<<>>, <<Event("Started", c)>>, <<Event("Ended", c)>>}
      BY <1>5 DEF Handler, SetupFails, SetupStarts, Spawn, SetupDone,
         TeardownReleases, TeardownEnds, EndSession, DropPlayer, DropGuard
    <2> QED BY <1>1, <1>2, <2>1 DEF EventKinds
  <1>6. ASSUME NEW c \in Conns, Request(c) PROVE events' \in Seq(E)
    <2>1. events' = <<>> \/ \E k \in EventKinds \cup Kinds : events' = <<Event(k, c)>>
      BY <1>6 DEF Request, Dispatch, Announce, Setup, SetVolume, SetProgress, Flush,
                  SetDecoration, Teardown, EventKinds
    <2>2. Kinds \subseteq EventKinds
      BY SessionsAssumption DEF EventKinds
    <2> QED BY <1>1, <1>2, <2>1, <2>2
  <1>7. ASSUME NEW c \in Conns, Connect(c) \/ Close(c) \/ AudioTask(c)
        PROVE  events' \in Seq(E)
    <2>1. events' \in {<<>>, <<Event("Ended", c)>>}
      BY <1>7 DEF Connect, Close, EndSession, AudioTask, TaskFlushes
    <2> QED BY <1>1, <1>2, <2>1 DEF EventKinds
  <1>8. ASSUME NEW t \in Threads, Playback(t) PROVE events' \in Seq(E)
    <2>1. CASE ReportPosition(t)
      <3>1. thread[t].conn \in Conns /\ events' = <<Event("Progress", thread[t].conn)>>
        BY <2>1 DEF ReportPosition, MoveThread, TInv, SInv, HInv, EInv, IInv,
                    ThreadsOwned, Owned
      <3> QED BY <1>1, <3>1 DEF EventKinds
    <2>2. CASE ~ ReportPosition(t)
      BY <1>2, <1>8, <2>2 DEF Playback, TakeFrame, CopyTrack, SkipReport, PlayerFlushes,
         StopThread, DrainEnds, ThreadEnds
    <2> QED BY <2>1, <2>2
  <1> QED BY <1>3, <1>4, <1>5, <1>6, <1>7, <1>8 DEF Next

\* Every variable keeps its type; a thread that is not free plays for a
\* connection, and one that ended has no stop flag left over for the next.
THEOREM TypeTheorem == Spec => []TypeOK
  <1>1. Init => TInv
    <2>1. Init => SInv
      BY InitSInv
    <2>2. Init => PlayersRun /\ Freed /\ EventTypes
      BY DEF Init, PlayersRun, Freed, EventTypes
    <2> QED BY <2>1, <2>2 DEF TInv
  <1>2. TInv /\ [Next]_vars => TInv'
    BY NextSInv, ThreadsNext, EventTypesNext DEF TInv
  <1>3. TInv => TypeOK
    <2> SUFFICES ASSUME TInv PROVE TypeOK
      OBVIOUS
    <2>1. thread \in [Threads -> [conn : Conns, state : {"run", "playing", "report", "drain"},
                                  stop : BOOLEAN] \cup {Free}]
      <3>1. ASSUME NEW t \in Threads
            PROVE  thread[t] \in [conn : Conns, state : {"run", "playing", "report", "drain"},
                                  stop : BOOLEAN] \cup {Free}
        <4>1. thread[t] \in [conn : Conns \cup {None},
                             state : {"free", "run", "playing", "report", "drain"},
                             stop : BOOLEAN]
          BY DEF TInv, SInv, HInv, EInv, IInv, Types
        <4>2. thread[t].state # "free" => thread[t].conn \in Conns
          BY DEF TInv, SInv, HInv, EInv, IInv, ThreadsOwned, Owned
        <4>3. thread[t].state = "free" => thread[t] = Free
          BY DEF TInv, Freed
        <4> QED BY <4>1, <4>2, <4>3
      <3> QED BY <3>1 DEF TInv, SInv, HInv, EInv, IInv, Types
    <2> QED BY <2>1 DEF TInv, SInv, HInv, EInv, IInv, Types, LatchTypes, SenderTypes,
                        Contents, EventTypes, TypeOK
  <1> QED BY <1>1, <1>2, <1>3, PTL DEF Spec

------------------------------------------------------------------------------
(* The slot.  Each step of a handler or a thread is a step of the abstract *)
(* slot, or one of which the host hears nothing.                           *)

LEMMA HoldersOf ==
    ASSUME IInv
    PROVE  /\ \A c \in Conns : guard[c] => Holders = {c}
           /\ ~ slot => Holders = {}
  BY DEF IInv, Exclusive, Holders

LEMMA PlaysForOf ==
    ASSUME IInv, NEW t \in Threads
    PROVE  /\ thread[t].state = "free" => PlaysFor[t] = None
           /\ thread[t].state # "free" =>
                 /\ PlaysFor[t] = thread[t].conn /\ PlaysFor[t] # None
                 /\ guard[PlaysFor[t]] /\ PlaysFor[t] \in Conns
  BY NoneIsNothing DEF IInv, ThreadsOwned, Owned, PlaysFor

LEMMA PlaysForStays ==
    ASSUME Types, \A t \in Threads : /\ thread'[t].state = "free" <=> thread[t].state = "free"
                                     /\ thread'[t].conn = thread[t].conn
    PROVE  UNCHANGED PlaysFor
  BY DEF PlaysFor

LEMMA HoldersStay == ASSUME UNCHANGED guard PROVE UNCHANGED Holders
  BY DEF Holders

LEMMA HeardNothing == ASSUME events' = <<>> PROVE Heard' = {}
  BY DEF Heard

LEMMA HeardOne ==
    ASSUME NEW kind, NEW c, events' = <<Event(kind, c)>>
    PROVE  /\ kind \in SessionEvents => Slot!Says(kind, c)
           /\ kind \notin SessionEvents => Heard' = {}
  <1>1. {events'[k] : k \in 1..Len(events')} = {Event(kind, c)}
    OBVIOUS
  <1>2. Heard' = {e \in {Event(kind, c)} : e.kind \in SessionEvents}
    BY <1>1 DEF Heard
  <1> QED BY <1>2 DEF Event, Slot!Says

\* The latched events are not about the session.
LEMMA ReplayHeard == ASSUME NEW c \in Conns, Replay(c) PROVE Heard' = {}
  <1>1. PICK m \in {<<>>, <<Event("Metadata", c)>>},
             a \in {<<>>, <<Event("Artwork", c)>>} : events' = m \o a
    BY DEF Replay
  <1>2. \A k \in 1..Len(events') : events'[k] \in {Event("Metadata", c), Event("Artwork", c)}
    BY <1>1
  <1>3. \A k \in 1..Len(events') : events'[k].kind \notin SessionEvents
    BY <1>2 DEF Event, SessionEvents
  <1> QED BY <1>3 DEF Heard

\* Steps of which the host hears nothing.
LEMMA SlotQuiet ==
    ASSUME Types, UNCHANGED <<guard, open>>, Heard' = {},
           \A t \in Threads : /\ thread'[t].state = "free" <=> thread[t].state = "free"
                              /\ thread'[t].conn = thread[t].conn
    PROVE  Slot!Next
  BY HoldersStay, PlaysForStays DEF Slot!Next, Slot!Quiet

LEMMA SlotQuietThreads ==
    ASSUME Types, UNCHANGED <<guard, open, thread>>, Heard' = {}
    PROVE  Slot!Next
  BY SlotQuiet

LEMMA SlotSetup == ASSUME HInv, NEW c \in Conns, Setup(c) PROVE Slot!Next
  <1>1. /\ IInv /\ Types /\ guard' = [guard EXCEPT ![c] = TRUE] /\ Heard' = {}
        /\ UNCHANGED <<open, thread>> /\ (guard[c] \/ ~ slot)
    BY HeardNothing DEF Setup, HInv, EInv, IInv
  <1>2. CASE guard[c]
    <2>1. guard' = guard
      BY <1>1, <1>2 DEF Types
    <2> QED BY <1>1, <2>1, SlotQuietThreads
  <1>3. CASE ~ guard[c]
    <2>1. Holders = {} /\ Holders' = {c}
      <3>1. Holders = {}
        BY <1>1, <1>3, HoldersOf
      <3>2. \A d \in Conns : guard'[d] <=> d = c \/ guard[d]
        BY <1>1 DEF Types
      <3> QED BY <3>1, <3>2 DEF Holders
    <2>2. UNCHANGED PlaysFor
      BY <1>1, PlaysForStays
    <2>3. Slot!Acquire(c)
      BY <1>1, <2>1, <2>2 DEF Slot!Acquire
    <2> QED BY <2>3 DEF Slot!Next
  <1> QED BY <1>2, <1>3

LEMMA SlotStarts == ASSUME HInv, NEW c \in Conns, SetupStarts(c) PROVE Slot!Next
  <1>1. /\ IInv /\ Types /\ guard[c] /\ UNCHANGED <<guard, thread>>
        /\ open' = [open EXCEPT ![c] = @ + 1] /\ events' = <<Event("Started", c)>>
    BY DEF SetupStarts, HInv, EInv, IInv, HandlerInv
  <1>2. Holders = {c}
    BY <1>1, HoldersOf
  <1>3. UNCHANGED <<Holders, PlaysFor>>
    BY <1>1, HoldersStay, PlaysForStays
  <1>4. \A t \in Threads : PlaysFor[t] \in {c, None}
    BY <1>1, PlaysForOf DEF IInv, Exclusive
  <1>5. Slot!Says("Started", c)
    BY <1>1, HeardOne DEF SessionEvents
  <1>6. Slot!Start(c)
    BY <1>1, <1>2, <1>3, <1>4, <1>5 DEF Slot!Start
  <1> QED BY <1>6 DEF Slot!Next

LEMMA SlotSpawn == ASSUME HInv, NEW c \in Conns, Spawn(c) PROVE Slot!Next
  <1>1. PICK t \in Threads, b \in {"run", "drain"} :
          /\ thread[t].state = "free"
          /\ thread' = [Halted(c) EXCEPT
                           ![t] = [conn |-> c, state |-> b, stop |-> FALSE]]
          /\ player' = [player EXCEPT ![c] = t]
    BY SpawnsOne
  <1>2. /\ IInv /\ Types /\ guard[c] /\ open[c] > 0 /\ old[c] = None
        /\ UNCHANGED <<guard, open>> /\ Heard' = {}
    BY HeardNothing DEF Spawn, HInv, HeldInv, EInv, StreamInv, IInv, HandlerInv
  <1>3. Holders = {c} /\ UNCHANGED Holders
    BY <1>2, HoldersOf, HoldersStay
  <1>4. \A u \in Threads : PlaysFor[u] # None => u = player[c] /\ PlaysFor[u] = c
    <2> SUFFICES ASSUME NEW u \in Threads, PlaysFor[u] # None
                 PROVE  u = player[c] /\ PlaysFor[u] = c
      OBVIOUS
    <2>1. thread[u].state # "free" /\ PlaysFor[u] = thread[u].conn
      BY <1>2, PlaysForOf
    <2>2. Owned(u) /\ thread[u].conn = c
      BY <1>2, <2>1 DEF IInv, ThreadsOwned, Owned, Exclusive
    <2> QED BY <1>2, <2>1, <2>2, NoneIsNothing DEF Owned
  <1>5. PlaysFor' = [PlaysFor EXCEPT ![t] = c]
    <2>1. \A u \in Threads :
            /\ u = t => thread'[u] = [conn |-> c, state |-> b, stop |-> FALSE]
            /\ u # t => /\ thread'[u].conn = thread[u].conn
                        /\ thread'[u].state = thread[u].state
      BY <1>1, <1>2, HaltedKeeps
    <2>2. ASSUME NEW u \in Threads
          PROVE  (IF thread'[u].state = "free" THEN None ELSE thread'[u].conn)
                     = IF u = t THEN c ELSE PlaysFor[u]
      BY <2>1 DEF PlaysFor
    <2>3. PlaysFor' = [u \in Threads |-> IF u = t THEN c ELSE PlaysFor[u]]
      BY <2>2 DEF PlaysFor
    <2>4. [PlaysFor EXCEPT ![t] = c] = [u \in Threads |-> IF u = t THEN c ELSE PlaysFor[u]]
      BY DEF PlaysFor
    <2> QED BY <2>3, <2>4
  <1>6. PlaysFor[t] = None
    BY <1>1, <1>2, PlaysForOf
  <1>7. Slot!MakeSink(c, t)
    BY <1>2, <1>3, <1>4, <1>5, <1>6 DEF Slot!MakeSink
  <1> QED BY <1>7 DEF Slot!Next

\* TEARDOWN and Drop: no thread of the connection is left, and no other has one.
LEMMA SlotReleases ==
    ASSUME HInv, NEW c \in Conns, pc[c] \in {"tdJoin", "dropJoin"}, PlayerGone(c),
           guard' = [guard EXCEPT ![c] = FALSE], events' = <<>>, UNCHANGED <<open, thread>>
    PROVE  Slot!Next
  <1>1. IInv /\ Types /\ Heard' = {} /\ UNCHANGED PlaysFor
    BY HeardNothing, PlaysForStays DEF HInv, EInv, IInv
  <1>2. CASE ~ guard[c]
    <2>1. guard' = guard
      BY <1>1, <1>2 DEF Types
    <2> QED BY <1>1, <2>1, SlotQuietThreads
  <1>3. CASE guard[c]
    <2>1. Holders = {c} /\ Holders' = {}
      <3>1. Holders = {c}
        BY <1>1, <1>3, HoldersOf
      <3>2. \A d \in Conns : guard'[d] <=> d # c /\ guard[d]
        BY <1>1 DEF Types
      <3> QED BY <3>1, <3>2 DEF Holders
    <2>2. ASSUME NEW u \in Threads PROVE PlaysFor[u] = None
      <3>1. CASE thread[u].state = "free"
        BY <3>1, <1>1, PlaysForOf
      <3>2. CASE thread[u].state # "free"
        <4>1. Owned(u) /\ thread[u].conn = c
          BY <3>2, <1>1, <1>3 DEF IInv, ThreadsOwned, Owned, Exclusive
        <4> QED BY <3>2, <4>1, <1>1, NoneIsNothing DEF Owned, PlayerGone, IInv, HandlerInv
      <3> QED BY <3>1, <3>2
    <2>3. Slot!Release(c)
      BY <1>1, <2>1, <2>2 DEF Slot!Release
    <2> QED BY <2>3 DEF Slot!Next
  <1> QED BY <1>2, <1>3

LEMMA SlotEnds ==
    ASSUME HInv, NEW c \in Conns, EndSession(c), UNCHANGED <<guard, thread>>
    PROVE  Slot!Next
  <1>1. Types /\ LatchTypes /\ UNCHANGED <<Holders, PlaysFor>>
    BY HoldersStay, PlaysForStays DEF HInv, EInv, IInv
  <1>2. CASE streaming[c]
    <2>1. /\ open[c] > 0 /\ events' = <<Event("Ended", c)>>
          /\ open' = [open EXCEPT ![c] = @ - 1]
      BY <1>2 DEF EndSession, HInv, EInv, StreamInv
    <2>2. Slot!Says("Ended", c)
      BY <2>1, HeardOne DEF SessionEvents
    <2>3. Slot!End(c)
      BY <1>1, <2>1, <2>2 DEF Slot!End
    <2> QED BY <2>3 DEF Slot!Next
  <1>3. CASE ~ streaming[c]
    <2>1. open' = open /\ Heard' = {}
      BY <1>1, <1>3, HeardNothing DEF EndSession, LatchTypes
    <2> QED BY <1>1, <2>1, SlotQuietThreads
  <1> QED BY <1>2, <1>3

LEMMA SlotHandler == ASSUME HInv, NEW c \in Conns, Handler(c) PROVE Slot!Next
  <1>1. Types
    BY DEF HInv, EInv, IInv
  <1>2. CASE SetupFails(c)
    BY <1>1, <1>2, SlotQuietThreads, HeardNothing DEF SetupFails, sessionVars
  <1>3. CASE Replay(c)
    BY <1>1, <1>3, SlotQuietThreads, ReplayHeard DEF Replay
  <1>4. CASE SetupDone(c)
    BY <1>1, <1>4, SlotQuietThreads, HeardNothing DEF SetupDone
  <1>5. CASE DropPlayer(c)
    <2>1. thread' = Halted(c) /\ UNCHANGED <<guard, open>> /\ Heard' = {}
      BY <1>5, HeardNothing DEF DropPlayer, sessionVars
    <2> QED BY <1>1, <2>1, HaltedKeeps, SlotQuiet
  <1>6. CASE TeardownReleases(c)
    BY <1>6, SlotReleases DEF TeardownReleases
  <1>7. CASE DropGuard(c)
    BY <1>7, SlotReleases DEF DropGuard
  <1>8. CASE TeardownEnds(c)
    BY <1>8, SlotEnds DEF TeardownEnds
  <1> QED BY <1>2, <1>3, <1>4, <1>5, <1>6, <1>7, <1>8, SlotStarts, SlotSpawn DEF Handler

LEMMA SlotRequest == ASSUME HInv, NEW c \in Conns, Request(c) PROVE Slot!Next
  <1>1. Types
    BY DEF HInv, EInv, IInv
  <1>2. CASE Announce(c)
    BY <1>1, <1>2, SlotQuietThreads, HeardNothing DEF Announce
  <1>3. CASE Setup(c)
    BY <1>3, SlotSetup
  <1>4. CASE SetVolume(c)
    <2>1. Heard' = {}
      BY <1>4, HeardOne DEF SetVolume, SessionEvents
    <2> QED BY <1>1, <1>4, <2>1, SlotQuietThreads DEF SetVolume, sessionVars
  <1>5. CASE SetProgress(c)
    <2>1. open[c] > 0 /\ UNCHANGED <<open, Holders, PlaysFor>>
      BY <1>1, <1>5, HoldersStay, PlaysForStays DEF SetProgress, HInv, EInv, StreamInv
    <2>2. Slot!Says("Progress", c)
      BY <1>5, HeardOne DEF SetProgress, SessionEvents
    <2>3. Slot!Progress(c)
      BY <2>1, <2>2 DEF Slot!Progress
    <2> QED BY <2>3 DEF Slot!Next
  <1>6. CASE Flush(c)
    <2>1. Heard' = {}
      BY <1>6, HeardOne DEF Flush, SessionEvents
    <2> QED BY <1>1, <1>6, <2>1, SlotQuietThreads DEF Flush, sessionVars
  <1>7. CASE \E k \in Kinds, v \in Values : SetDecoration(c, k, v)
    <2>1. PICK k \in Kinds, v \in Values : SetDecoration(c, k, v)
      BY <1>7
    <2>2. k \notin SessionEvents
      BY KindNames DEF SessionEvents
    <2>3. Heard' = {}
      BY <2>1, <2>2, HeardOne, HeardNothing DEF SetDecoration
    <2> QED BY <1>1, <2>1, <2>3, SlotQuietThreads DEF SetDecoration
  <1>8. CASE Teardown(c)
    <2>1. thread' = Halted(c) /\ UNCHANGED <<guard, open>> /\ Heard' = {}
      BY <1>8, HeardNothing DEF Teardown, sessionVars
    <2> QED BY <1>1, <2>1, HaltedKeeps, SlotQuiet
  <1> QED BY <1>2, <1>3, <1>4, <1>5, <1>6, <1>7, <1>8 DEF Request, Dispatch

LEMMA SlotPlayback == ASSUME HInv, NEW t \in Threads, Playback(t) PROVE Slot!Next
  <1>1. IInv /\ Types
    BY DEF HInv, EInv, IInv
  <1>2. ASSUME NEW from \in {"run", "playing", "report"},
               NEW to \in {"run", "playing", "report"}, MoveThread(t, from, to)
        PROVE  UNCHANGED <<open, Holders, PlaysFor>>
    <2>1. \A u \in Threads : /\ thread'[u].state = "free" <=> thread[u].state = "free"
                             /\ thread'[u].conn = thread[u].conn
      BY <1>1, <1>2 DEF MoveThread, Types
    <2> QED BY <1>1, <1>2, <2>1, HoldersStay, PlaysForStays DEF MoveThread, sessionVars
  <1>3. ASSUME NEW from \in {"run", "playing", "report"},
               NEW to \in {"run", "playing", "report"}, MoveThread(t, from, to),
               events' = <<>>
        PROVE  Slot!Next
    BY <1>2, <1>3, HeardNothing DEF Slot!Next, Slot!Quiet
  <1>4. CASE TakeFrame(t)
    BY <1>3, <1>4 DEF TakeFrame
  <1>5. CASE CopyTrack(t)
    BY <1>3, <1>5 DEF CopyTrack
  <1>6. CASE SkipReport(t)
    BY <1>3, <1>6 DEF SkipReport
  <1>7. CASE ReportPosition(t)
    <2> DEFINE c == thread[t].conn
    <2>1. c \in Conns /\ PlaysFor[t] = c
      BY <1>1, <1>7, PlaysForOf DEF ReportPosition, MoveThread
    <2>2. UNCHANGED <<open, Holders, PlaysFor>>
      BY <1>2, <1>7 DEF ReportPosition
    <2>3. Slot!Says("Progress", c)
      BY <1>7, HeardOne DEF ReportPosition, SessionEvents
    <2>4. Slot!Progress(c)
      BY <2>1, <2>2, <2>3 DEF Slot!Progress
    <2> QED BY <2>1, <2>4 DEF Slot!Next
  <1>8. CASE PlayerFlushes(t)
    BY <1>1, <1>8, SlotQuietThreads, HeardNothing DEF PlayerFlushes, sessionVars
  <1>9. CASE StopThread(t) \/ DrainEnds(t)
    <2>1. /\ thread' = [thread EXCEPT ![t] = Free] /\ thread[t].state # "free"
          /\ UNCHANGED <<guard, open>> /\ Heard' = {}
      BY <1>9, HeardNothing DEF StopThread, DrainEnds, ThreadEnds, sessionVars
    <2>2. PlaysFor[t] # None /\ PlaysFor' = [PlaysFor EXCEPT ![t] = None]
      <3>1. PlaysFor[t] # None
        BY <1>1, <2>1, PlaysForOf
      <3>2. \A u \in Threads : /\ u = t => thread'[u].state = "free"
                               /\ u # t => thread'[u] = thread[u]
        BY <1>1, <2>1 DEF Types, Free
      <3> QED BY <3>1, <3>2 DEF PlaysFor
    <2>3. Slot!DropSink(t)
      BY <2>1, <2>2, HoldersStay DEF Slot!DropSink
    <2> QED BY <2>3 DEF Slot!Next
  <1> QED BY <1>4, <1>5, <1>6, <1>7, <1>8, <1>9 DEF Playback

\* Whatever senders request and however handlers and threads interleave, the
\* slot passes on only when no sink is alive, and sessions and sinks begin only
\* for the connection that holds it (SessionSlot, handle_setup, TEARDOWN, the
\* drop order of Session): the sessions implement the streaming slot.
THEOREM SlotTheorem == Spec => RefinesSlot
  <1>1. Init => Slot!Init
    <2> SUFFICES ASSUME Init PROVE Slot!Init
      OBVIOUS
    <2>1. Holders = {}
      BY DEF Init, Holders
    <2>2. PlaysFor = [t \in Threads |-> None]
      BY DEF Init, PlaysFor, Free
    <2>3. Heard = {}
      BY DEF Init, Heard
    <2> QED BY <2>1, <2>2, <2>3 DEF Init, Slot!Init
  <1>2. HInv /\ [Next]_vars => [Slot!Next]_Slot!vars
    <2> SUFFICES ASSUME HInv, [Next]_vars PROVE [Slot!Next]_Slot!vars
      OBVIOUS
    <2>1. Types
      BY DEF HInv, EInv, IInv
    <2>2. ASSUME NEW c \in Conns,
                 Connect(c) \/ Request(c) \/ Close(c) \/ Handler(c) \/ AudioTask(c)
          PROVE  Slot!Next
      <3>1. CASE Connect(c)
        BY <2>1, <3>1, SlotQuietThreads, HeardNothing DEF Connect
      <3>2. CASE Close(c)
        BY <3>2, SlotEnds DEF Close
      <3>3. CASE AudioTask(c)
        BY <2>1, <3>3, SlotQuietThreads, HeardNothing DEF AudioTask, TaskFlushes, sessionVars
      <3> QED BY <2>2, <3>1, <3>2, <3>3, SlotRequest, SlotHandler
    <2>3. CASE UNCHANGED vars
      BY <2>3 DEF vars, Slot!vars, Holders, PlaysFor, Heard
    <2> QED BY <2>2, <2>3, SlotPlayback DEF Next
  <1> QED BY <1>1, <1>2, InductiveH, PTL DEF Spec, RefinesSlot, Slot!Spec
================================================================================
