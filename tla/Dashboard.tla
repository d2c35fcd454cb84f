------------------------------- MODULE Dashboard -------------------------------
(***************************************************************************)
(* What is playing, published to dashboards: the receiver's snapshot and   *)
(* its bounded fan-out (Publisher and serve_client in the receiver's       *)
(* dashboard.rs), and the screen of each dashboard, which folds the        *)
(* messages it receives (NowPlaying in tui.rs).                            *)
(***************************************************************************)
EXTENDS NowPlaying, Naturals, Sequences

CONSTANTS Clients,    \* connected dashboards
          Readers,    \* those that keep reading their socket
          Messages,   \* what the receiver publishes
          Capacity,   \* CHANNEL_CAPACITY, 64 in the code
          Room,       \* bound: messages a connection holds, the one waiting in
                      \* serve_client's send included
          MaxEvents,  \* bound: events published
          MaxLosses   \* bound: connections lost

ASSUME DashboardAssumption ==
    /\ Readers \subseteq Clients /\ Messages \subseteq Changes
    /\ None \notin Changes
    /\ Capacity \in Nat \ {0} /\ Room \in Nat \ {0}
    /\ MaxEvents \in Nat /\ MaxLosses \in Nat

VARIABLES
    snapshot,  \* Publisher::snapshot
    folded,    \* the message publish has folded into it and not yet sent, or None
    conn,      \* the connection: "down", "subscribed" or "up"
    queue,     \* what the client's receiver of the channel has not taken
    lagged,    \* did that receiver miss messages?
    socket,    \* messages on their way to the dashboard
    screen,    \* the dashboard's NowPlaying
    events,    \* history: how many events were published
    losses     \* history: how many connections were lost

vars == <<snapshot, folded, conn, queue, lagged, socket, screen, events, losses>>

Init ==
    /\ snapshot = Blank /\ folded = None
    /\ conn = [c \in Clients |-> "down"]
    /\ queue = [c \in Clients |-> <<>>]
    /\ lagged = [c \in Clients |-> FALSE]
    /\ socket = [c \in Clients |-> <<>>]
    /\ screen = [c \in Clients |-> Blank]
    /\ events = 0 /\ losses = 0

------------------------------------------------------------------------------
SnapshotMessage == [type |-> "Snapshot", state |-> snapshot]

------------------------------------------------------------------------------
(* The host's event task: publish folds the change under the lock, and     *)
(* sends it after the lock is released.                                    *)

Fold(m) ==
    /\ folded = None /\ events < MaxEvents
    /\ snapshot' = Folded(snapshot, m)
    /\ folded' = m
    /\ events' = events + 1
    /\ UNCHANGED <<conn, queue, lagged, socket, screen, losses>>

\* The task takes its events one at a time, whatever they are.
EventTask == \E m \in Messages : Fold(m)

\* Mutant: the channel waits for a receiver that is full.
SendWaits ==
    /\ folded # None
    /\ \A c \in Clients : conn[c] = "down" \/ Len(queue[c]) < Capacity
    /\ queue' = [c \in Clients |->
                    IF conn[c] = "down" THEN queue[c] ELSE Append(queue[c], folded)]
    /\ folded' = None
    /\ UNCHANGED <<snapshot, conn, lagged, socket, screen, events, losses>>

\* The channel keeps the last Capacity messages; a receiver that is further
\* behind has lagged.  Nobody waits.
Send ==
    /\ folded # None
    /\ LET full(c) == Len(queue[c]) = Capacity
       IN  /\ queue' = [c \in Clients |->
                  IF conn[c] = "down" THEN queue[c]
                  ELSE Append(IF full(c) THEN Tail(queue[c]) ELSE queue[c], folded)]
           /\ lagged' = [c \in Clients |->
                  lagged[c] \/ (conn[c] # "down" /\ full(c))]
    /\ folded' = None
    /\ UNCHANGED <<snapshot, conn, socket, screen, events, losses>>

------------------------------------------------------------------------------
(* serve_client. *)

\* The subscription comes first ...
Subscribe(c) ==
    /\ conn[c] = "down"
    /\ conn' = [conn EXCEPT ![c] = "subscribed"]
    /\ UNCHANGED <<snapshot, folded, queue, lagged, socket, screen, events, losses>>

\* ... then the handshake, and the snapshot.
Greet(c) ==
    /\ conn[c] = "subscribed"
    /\ conn' = [conn EXCEPT ![c] = "up"]
    /\ socket' = [socket EXCEPT ![c] = <<SnapshotMessage>>]
    /\ UNCHANGED <<snapshot, folded, queue, lagged, screen, events, losses>>

Forward(c) ==
    /\ conn[c] = "up" /\ ~ lagged[c]
    /\ queue[c] # <<>> /\ Len(socket[c]) < Room
    /\ socket' = [socket EXCEPT ![c] = Append(@, Head(queue[c]))]
    /\ queue' = [queue EXCEPT ![c] = Tail(@)]
    /\ UNCHANGED <<snapshot, folded, conn, lagged, screen, events, losses>>

\* Mutant: lagging is ignored.
ResyncSkipped(c) ==
    /\ conn[c] = "up" /\ lagged[c]
    /\ lagged' = [lagged EXCEPT ![c] = FALSE]
    /\ UNCHANGED <<snapshot, folded, conn, queue, socket, screen, events, losses>>

\* Too far behind: a snapshot, ahead of the messages the channel still has.
Resync(c) ==
    /\ conn[c] = "up" /\ lagged[c] /\ Len(socket[c]) < Room
    /\ socket' = [socket EXCEPT ![c] = Append(@, SnapshotMessage)]
    /\ lagged' = [lagged EXCEPT ![c] = FALSE]
    /\ UNCHANGED <<snapshot, folded, conn, queue, screen, events, losses>>

\* The connection is lost with what is on its way.
Lose(c) ==
    /\ conn[c] # "down" /\ losses < MaxLosses
    /\ conn' = [conn EXCEPT ![c] = "down"]
    /\ queue' = [queue EXCEPT ![c] = <<>>]
    /\ lagged' = [lagged EXCEPT ![c] = FALSE]
    /\ socket' = [socket EXCEPT ![c] = <<>>]
    /\ losses' = losses + 1
    /\ UNCHANGED <<snapshot, folded, screen, events>>

\* The receiver restarts: its snapshot and every connection are gone.
Restart ==
    /\ losses < MaxLosses
    /\ snapshot' = Blank /\ folded' = None
    /\ conn' = [c \in Clients |-> "down"]
    /\ queue' = [c \in Clients |-> <<>>]
    /\ lagged' = [c \in Clients |-> FALSE]
    /\ socket' = [c \in Clients |-> <<>>]
    /\ losses' = losses + 1
    /\ UNCHANGED <<screen, events>>

------------------------------------------------------------------------------
\* The dashboard.
Show(c) ==
    /\ socket[c] # <<>>
    /\ screen' = [screen EXCEPT ![c] = Shown(@, Head(socket[c]))]
    /\ socket' = [socket EXCEPT ![c] = Tail(@)]
    /\ UNCHANGED <<snapshot, folded, conn, queue, lagged, events, losses>>

Serve(c) == Greet(c) \/ Forward(c) \/ Resync(c)

Next ==
    \/ EventTask \/ Send
    \/ \E c \in Clients : Subscribe(c) \/ Serve(c) \/ Lose(c) \/ Show(c)
    \/ Restart

Spec == Init /\ [][Next]_vars

------------------------------------------------------------------------------
CaughtUp(c) ==
    /\ conn[c] = "up" /\ folded = None
    /\ queue[c] = <<>> /\ ~ lagged[c] /\ socket[c] = <<>>

\* The screen and the snapshot agree, except that a flush leaves the position
\* on the screen, and the end of a session the volume.
Agrees(c) ==
    /\ \A f \in {"session", "track", "artwork"} : screen[c][f] = snapshot[f]
    /\ \A f \in {"progress", "volume"} :
          snapshot[f] # None => screen[c][f] = snapshot[f]

\* A dashboard that caught up shows what the receiver knows, whenever it
\* connected, and even if a change was folded into its snapshot and sent to
\* it as well, or it lagged and older changes followed a newer snapshot.
CaughtUpAgrees == \A c \in Clients : CaughtUp(c) => Agrees(c)

------------------------------------------------------------------------------
(* Liveness: the receiver's tasks are scheduled, its clients reconnect, and *)
(* the readers among them read.  The others owe nothing.                    *)
FairSpec ==
    /\ Spec
    /\ WF_vars(Send)
    /\ \A c \in Clients : WF_vars(Serve(c)) /\ WF_vars(Subscribe(c))
    /\ \A c \in Readers : WF_vars(Show(c))

\* When the events stop, a dashboard that reads becomes current and stays so,
\* although another one has stopped reading with its queue full.
ReadersBecomeCurrent ==
    \A c \in Readers : <>[](conn[c] = "up" /\ folded = None /\ Agrees(c))
=============================================================================
