# OpenAirplay: specifications, model checking and proofs

OpenAirplay is an AirPlay 1 (RAOP) audio receiver in Rust: a library
(`openairplay1`), a receiver for Linux that plays through ALSA
(`openairplay1-receiver`), a terminal dashboard (`openairplay1-dashboard`) and
the messages the two exchange (`openairplay1-dashboard-protocol`). This
directory holds TLA+ modules that model the parts of it whose correctness
depends on order, time and sharing; TLC configurations that check them on small
instances; and proofs, checked by TLAPS, of what matters most for every value of
the constants. Paths below are relative to the repository: `session.rs` stands
for `openairplay1/src/session.rs`, and so on.

* [1. The system](#1-the-system)
* [2. Modules, and how they correspond to the code](#2-modules-and-how-they-correspond-to-the-code)
* [3. Runs](#3-runs)
* [4. Bounds](#4-bounds)
* [5. Fairness and deadlock](#5-fairness-and-deadlock)
* [6. Proofs](#6-proofs)
* [7. Where the code and its documents disagree](#7-where-the-code-and-its-documents-disagree)
* [8. What is only model-checked, and what is not modelled](#8-what-is-only-model-checked-and-what-is-not-modelled)
* [9. Plan](#9-plan)

To run one configuration and one proof module:

    tlc -workers 2 -config MCSessions.cfg MCSessions.tla
    tlapm SessionsProofs.tla

## 1. The system

A sender (iTunes, an iPhone, a Mac) opens a TCP connection and speaks RTSP:
`OPTIONS`, `ANNOUNCE` (what will be streamed, with which key), `SETUP` (ports),
`RECORD`, `SET_PARAMETER` (volume, metadata, artwork, progress), `FLUSH`,
`TEARDOWN`. Audio comes over UDP, with a control channel for retransmission and
sync packets and a timing channel for the clock.

                 RTSP/TCP                      events (unbounded channel)
    sender ──► Connection ─► Session ───────────────────────────► host ──► Publisher
      │ │ │                   │  │ ▲ SlotGuard (one per receiver)              │ broadcast
      │ │ │ flush channel     │  │ │                                           ▼
      │ │ │        ┌──────────┘  │ join                              serve_client (per client)
      │ │ │ audio  ▼             ▼                                           │ WebSocket
      │ │ └─────► audio_receiver ──────────► playback thread ──► AudioSink     ▼
      │ │           ▲  JitterBuffer  mpsc      Prebuffer, gate   (AlsaSink)  client::run ──► tui
      │ │ control   │ resends channel            ▲        │
      │ └───────► control_receiver ──────┐       │track   └──► Progress events
      │ timing                          ▼       │
      └─────────► timing_task ──────► ClockModel ┘

| Component | State | Operations | What makes it hard | What makes it correct |
|---|---|---|---|---|
| Jitter buffer (`jitter.rs`) | a ring of 512 slots without labels, the next and the highest sequence number | `insert`, `pop_ready`, `reset`, `missing` | 16-bit numbers wrap; a slot is shared by numbers a ring apart; `highest_seq` outlives the packet that set it | two numbers never share a slot; a frame comes out under its own number; a gap is conceded when the buffer is `MAX_LEAD` ahead, and not before; while something is held back, the gap is one that is asked for |
| Audio and control tasks (`session.rs`) | jitter buffer, timestamp anchor, `ResendTracker` | the branches of `select!` in `audio_receiver`: audio, resend replies, service tick, flush | loss, reordering, duplication, late retransmissions; a FLUSH overtaken by packets, or overtaking them | each frame is played at its place with its timestamp; losses are conceded in time; nothing stale after a FLUSH |
| RTSP parser and connection loop (`rtsp.rs`, `server.rs`) | the bytes not read yet, the request as far as it was read | `read_request`, `dispatch`, `handle_connection` | a request arrives in any number of pieces, the next one behind it, and may be cut off anywhere; limits | each message is handled whole, once and in order, and its answer is its own |
| Digest authentication (`session.rs`, `server.rs`, `crypto.rs`) | per connection: nonce, verdict | `authenticate`, `auth_challenge` | requests written ahead are refused one after the other with one nonce | the gate opens for the password on this connection's nonce only; nothing happens for anybody else |
| RTSP sessions and the slot (`session.rs`, `server.rs`) | per connection: parameters, guard, latch, player, tasks; shared: the slot | the methods, `Drop` | handlers of several connections interleave, block in `join`, fail half way; connections close at any time | one sender streams at a time; nothing of one session shows in another; every handler returns |
| Clock model (`clock.rs`, `timing_task`) | samples, offset, sync anchor | `add_timing`, `set_sync`, `play_time` | replies are delayed, lost, doubled and carry nothing that names their request | the start instant is off by no more than half the best round trip |
| Playback thread (`player.rs`) | command channel, prebuffer, start gate | `run`, `Playout::feed`, `reset`, `Drop` of `Player` | flushes while the prebuffer fills; stop while the thread writes, waits or has no decoder | nothing is lost or doubled; each start waits for the prebuffer; dropping the player returns, except without a decoder (section 7) |
| Playback position (`player.rs`, `set_progress`) | the track anchor, shared under a lock; the second reported last | `set_progress`, `Position::played`, `extent` | two threads report the same thing; 32-bit timestamps wrap | what is shown follows the audio |
| Datagrams and bodies (`rtp.rs`, `sdp.rs`, `dmap.rs`) | none | `parse` and its like | offsets, cut-off data, repeated names | what was written is read back, or nothing |
| Dashboard publisher (receiver's `dashboard.rs`, protocol `lib.rs`) | snapshot; one bounded queue per client | `publish`, `serve_client`, `Snapshot::apply` | fold and send are not atomic; clients join between the two, lag, stop reading | a client that caught up shows what the receiver knows; a client that does not read holds up nobody |
| Dashboard client (`client.rs`) | connection, backoff, update channel | `run`, `session` | every way a connection can end | it reconnects; a lost connection is not shown as live |
| Dashboard display (`tui.rs`, `images.rs`) | `NowPlaying`, what it believes is drawn; the terminal | `event_loop`, `draw_artwork`, `layout`, `probe_kitty`, `TerminalGuard` | the picture is outside of what ratatui redraws: text, layout, resizes and failed writes change it behind the loop's back | the picture on the screen is the one that is due, in its box, with the exceptions of section 7 |
| ALSA sink (receiver's `player.rs`) | depth of the device queue, writes since the last check | `write` and its recovery, `drift_correct`, `flush` | two clocks that drift apart for hours; underruns | the queue stays near its target (not modelled, section 8) |
| Cryptography, ALAC, mDNS, the binary | | | libraries and I/O | see section 8 |

`PROJECT.json` lists the components with their sources and modules, and under
`hazards` every place where the code can go wrong in a way a unit test would
hardly reach, with the property that watches it or the reason why none does.

## 2. Modules, and how they correspond to the code

`PROJECT.json`, under `map`, gives the source lines of every definition.
Definitions keep the names of the functions they translate (`insert`,
`pop_ready` as `PopReady`, `derive_ts`, `extent`, ...). `Option` is Rust's `None`
where what is absent is a number.

**`SeqCircle`, `JitterRing`, `JitterBuffer`, `PlayoutOrder`.** `SeqCircle` is
the circle of sequence numbers and `seq_diff`. `JitterRing` is the data
structure of `jitter.rs` as operators on a record with the fields of the struct;
the loop of `pop_ready` becomes a count `n` of turns with the condition that it
stops after exactly `n`. A slot stores a frame without its number, as in the
code, so that an alias would be visible. `JitterBuffer` lets any number arrive
at any time; `buffer` is the struct and `returned` what the last pop handed out.
`PlayoutOrder` is the promise without a ring: a *set* of accepted packets,
delivered contiguously and in order, never dropped before a reset, and a gap
given up only when the newest packet is `MaxLead` ahead of it. `RefinesOrder`
says that the first implements the second.

**`AudioReceiver`** is the `select!` loop around the buffer, one action per
branch: `ReceiveAudio`, `ReceiveResend`, `ServiceTick` (drain, then
`request_resends` with its backoff), `HandleFlush`. The sender numbers packets
0, 1, 2, ... and sends them with wrapped numbers; the network loses, reorders
and duplicates; the sender answers resend requests for packets it still has; an
RTSP FLUSH goes into the flush channel while the packets after it may overtake
it. The control task is folded into `Answer` and `ReceiveResend`: it forwards
replies and keeps no state of its own. `pos`, the absolute place of the packet
to be delivered next, and `newest` are history variables.

**`Connection`** is the layer under the sessions. What travels is a stream of
items, a line or a body byte each; the sender appends whole messages, well
formed or not, ahead of the answers, and may hang up, which cuts the stream off
anywhere. `ReadRequestLine`, `ReadHeader` and `ReadBody` are `read_request`,
which takes what has arrived or meets the end; `Handle` is `dispatch` as far as
the gate and the common headers go, and the write of the answer. `authenticate`
and `auth_challenge` are here with the nonce, the digest being a function no two
arguments of which agree. The nonces a sender can use are those it was told: on
this connection or an earlier one. What the methods do is in `Sessions`.

**`StreamingSlot`, `Sessions`.** `Sessions` models any number of connections.
`sender[c]` is who sits at the other end (`authenticate` is `Admitted`, which
`Connection` has in detail; `Request` is `Admitted /\ Dispatch`); `pc[c]` is
where the handler of a connection stands.
A handler is cut exactly where another thread can see the difference: an event
is sent, the slot is taken or released, a sink is created, a thread is joined.
SETUP is `Setup` (slot), then an await that may fail (`SetupFails`),
`SetupStarts` (SessionStarted), `Replay` (latched metadata and artwork), `Spawn`
(new sink and thread; the old player is told to stop), `SetupDone` (old thread
joined). TEARDOWN is `Teardown` (tasks aborted, stop flag), `TeardownReleases`
(joined; slot released), `TeardownEnds` (`end_session`). A closing connection is
`Close`, `DropPlayer`, `DropGuard`: `Drop for Session` first, then its fields in
declaration order. The playback threads are reduced to what the slot and the
events see: take a frame, copy the track anchor under its lock, report outside
of it, stop. Whether a decoder can be built for the stream is a choice of
`Spawn`: without one the thread is in state "drain", ignores the stop flag, and
ends when its channel closes (`DrainEnds`), which takes the end of the audio
task: TEARDOWN and the end of a connection abort it, a second SETUP does not.
`StreamingSlot` is the promise without handlers, threads and requests: who holds the slot, for whom each sink plays, and what the host hears
of sessions. The slot passes on only when no sink is alive; a session starts, and
a sink is made, only for the holder and while no sink of another is alive; an end
belongs to a start, progress to a session or to a sink that still lives.
`RefinesSlot` says that `Sessions` implements it, `Holders`, `PlaysFor` and
`Heard` how.

**`ClockSync`** has time in ticks (nanoseconds in the code), of which `Second`
make `SampleRate` frames, and a sender whose clock is `Skew` ahead; frame `f` is
due in the tick `DueAt(f)`. `ToTicks` converts a signed number of frames by an
integer division that rounds towards zero, as `play_time` does. `TimingRequest`
and `TimingReply` are `timing_task`, which pairs a reply with the departure of
the *last* request; `add_timing` keeps a window of samples and takes the offset
of the first one with the lowest round trip; `SyncPacket` is `control_receiver`;
`play_time` is the result.

**`PlaybackThread`** is the command channel and the thread of `player.rs`, with
the three states of an aborted tokio task (running, aborted, dropped), because
the thread's channel closes only when the task's sender is dropped. `Cases` are
the circumstances: whether a decoder can be built, whether the player is
replaced by a second SETUP, whether the runtime has a worker left while the
handler blocks in `join`. All eight are checked.

**`Progress`** is the race between the two reporters of the position:
`set_progress` (`SetTrack`, `SendProgress`) on a connection's task, and the
playback thread (`CopyTrack` under the lock, `Report` outside).

**`NowPlaying`, `Dashboard`.** `NowPlaying` has the messages and the two
functions that fold them: `Folded` (`Snapshot::apply`, receiver) and `Shown`
(`NowPlaying::apply`, dashboard). `Dashboard` is `publish` cut in two (`Fold`
under the lock, `Send` after), the broadcast channel that drops the oldest
message of a slow receiver, and `serve_client` (`Subscribe`, `Greet`, `Forward`,
`Resync`).

**`DashboardClient`, `Display`.** `DashboardClient` is `run` and `session` of
`client.rs`; `Display` composes it with the loop that takes its updates. A step
of the loop is one turn, from the branch its `select!` takes to the next
`select!`: `Apply` (an update), `Tick` (heartbeat, key, notice of a resize),
each with the whole `Redraw`: ratatui clears a terminal that was resized, writes
the text and flushes, then `DrawArtwork` compares the picture it wants, artwork
and box, with the one it believes is there. `Resize` changes the terminal under
the loop. `Quit` is every way out: a key, a signal, a failed write; what
`TerminalGuard` then makes of the screen is not followed. `picture` is the
picture that is whole on the terminal and `drawn` what the loop believes;
`remains` says that parts of earlier pictures may still be on it (`LeavesParts`):
iTerm2 has no escape that deletes a picture, and ratatui does not write cells
again that were and are blank, so a picture that is taken away, or that moves or
shrinks, leaves what the next one does not cover. `held` says that stdout's
buffer keeps an escape that was not flushed. `Box` is `layout`, with its
arithmetic. `probe_kitty` and `detect` choose the protocol in `Init`.

**`Datagrams`, `Announce`, `Dmap`** are pure functions, without state:
`AudioPacket::parse` and the other readers and writers of `rtp.rs` on sequences
of digits; which ANNOUNCE is accepted and what it settles; the walk over DMAP
entries. They are checked by assumptions of `MCConnection` (section 3).

Definitions marked "Mutant" are faults a programmer could make. Each property of
a passing run is violated when one of them replaces the definition it is next
to (`PROJECT.json`, `mutants`); nothing else uses them.

The `MC...` modules and the `.cfg` files give the constants their values.
`MCStages` puts the four small machines that share no state, `JitterBuffer`,
`ClockSync`, `PlaybackThread` and `Progress`, into one run: in each behaviour one
of them moves and the others stay as they started.

The theorems are in `AudioProofs` (the jitter buffer and the audio task around
it), `ConnectionProofs`, `SessionsProofs`, `ClockSyncProofs`, `PlayerProofs`
(the playback thread and the position), `DashboardProofs` and `DisplayProofs`.

## 3. Runs

| Run | Configuration | Asks | Result |
|---|---|---|---|
| `stages` | `MCStages.cfg` | *Ring*: in every order of insert, pop and reset, do stored frames stay in one window, under their own numbers (`NoAliasing`), is `highest_seq` a stored packet less than a ring ahead, or one behind (`HighestStored`), is what holds a packet back asked for (`HeldBackIsMissing`), and does the ring implement ordered delivery (`RefinesOrder`)? *Clock*: is the offset within half the best round trip (`OffsetWithin`), and the start of playback too (`StartInTime`), if replies come before the next request? *Thread*: frames, silence, undecodable packets, flushes, a stop at any point, with and without a decoder: is nothing lost (`NothingLost`), does each start wait for the prebuffer (`PrebufferFirst`), does the start instant belong to the first frame heard (`StartsOnFirstFrame`), and does drop return but for the case it names (`DropReturns`)? *Position*: after a second of audio inside the track, does the host show its position and length (`FollowsAudio`)? | holds |
| `audio` | `MCAudio.cfg` | A stream over a bad network, with retransmission and a FLUSH: is every frame at its place (`FramesInPlace`), with the sender's timestamp as long as the anchor is near (`TimestampsNearAnchor`), are losses conceded in time (`ConcealsInTime`), and is nothing stale played after a FLUSH that names a packet (`NoStaleAudio`)? | holds |
| `audio_live` | `MCAudioLive.cfg` | Is a packet held back by a gap played in the end even if nothing more comes (`HeldBackIsPlayed`)? | holds |
| `audio_outage` | `MCAudioOutage.cfg` | The same as `ConcealsInTime` when an outage lasts longer than a ring | violated: the first packet after it is rejected, and nothing of the gap is conceded (section 7) |
| `connection` | `MCConnection.cfg` | Messages written ahead, malformed, at and over the limits, cut off anywhere: is each handled whole and in order (`WholeMessages`), is each answer that of its message (`AnswersMatch`), is every message refused up to the first that proves the password for this connection's nonce, and none after it (`DeniedUntilProven`), and is a good message answered (`Answered`)? | holds |
| `sessions` | `MCSessions.cfg` | Two connections: do the handlers implement the slot of `StreamingSlot` (`RefinesSlot`), is there one owner (`OneOwner`), and one sink except while a second SETUP waits (`OneSink`), do sessions overlap in one window only (`OverlapOnlyInTeardown`), are events where they belong (`DecorationInsideSession`) and the latest metadata shown (`HostIsUpToDate`), does progress end with the player (`ProgressEndsWithPlayer`), does a sender without the password get nothing (`StrangersGetNothing`), and does every handler return but for the SETUP it names (`HandlersReturn`)? | holds |
| `progress_after_end` | `MCSessionsProgress.cfg` | Does progress come between SessionStarted and SessionEnded only (`ProgressInsideSession`)? | violated: a closing connection reports the end first (section 7) |
| `undecodable` | `MCSessionsUndecodable.cfg` | Does a thread that was told to stop end (`DropStopsThread`)? | violated: one without a decoder, when a second SETUP replaces it (section 7) |
| `dashboard` | `MCDashboard.cfg` | Does a dashboard that caught up agree with the receiver (`CaughtUpAgrees`), and does one that reads become current (`ReadersBecomeCurrent`) while the other stops reading? | holds |
| `display` | `MCDisplay.cfg` | The client and the display together: is the picture on the terminal the one that is due, but for the exceptions it names (`PictureIsCurrent`), does the client reconnect and the screen come back unless the receiver vanished under the connection (`Reconnects`), and does it not go on showing a receiver that is down (`NoStaleScreen`)? | holds |
| `reboot` | `MCDisplayReboot.cfg` | Does it reconnect to a receiver whose machine failed and is back (`ReconnectsAfterReboot`)? | violated: not if the connection is half open (section 7) |
| `resize` | `MCDisplayResize.cfg` | Is the picture there after a resize (`ReplacedAfterResize`)? | violated where its box stays the same (section 7) |

`stages` (of the ring), `sessions` and `display` check a type invariant,
`TypeOK`, too; where a module has none, the types of the variables are part of
the inductive invariant of its proofs (`Types`).

Every safety property of a passing run is also a theorem (section 6), for all
constants that satisfy the assumptions named there.

`MCConnection` also states what the pure functions do, as assumptions TLC
evaluates before the run: packets of each kind are read back as they were
written, marked or not and behind the header of a resend reply, cut-off ones
right or not at all, and each goes to whom it is for (`AudioIsReadBack`,
`ControlIsReadBack`, `RequestsAreReadable`); on every DMAP body of up to six
small bytes the walk finds the entries, up to the first that is incomplete
(`WalkFindsTheEntries`), and later fields decide (`LaterFieldsDecide`); on
every ANNOUNCE of up to four lines the order of the names is free, and a stream
is taken for an encrypted one exactly if it has a key and an IV
(`OrderOfNamesIsFree`). `MCDisplay` states that the probe fails closed
(`DetectFailsClosed`).

## 4. Bounds

*stages*, the ring: circle 18, ring 6, lead 4. Three laps of the ring per turn
of the circle keep the code's conditions (the capacity divides the circle, twice
the capacity is less than the circle, the lead is less than the capacity), so a
number can be early, late, one ring ahead and on the other side of the wrap. This
part of the run is complete: there is no bound on the number of steps.

*audio*: circle 12, ring 4, lead 2, first number 10 (the stream wraps after two
packets), 7 packets (4 in `audio_live`), a packet overtaken by at most one
(`Reorder` 2), a sender that keeps 4 packets, outages of 2, one FLUSH per
behaviour, timestamps that jump by 10 at the FLUSH. 7 packets are a ring and a
half, so slots are reused and late replies meet their next tenants. With
`Retain` 4 a reply may arrive when the buffer is a whole ring further.
*audio_outage* uses a circle of 16, and an outage (6) that exceeds the ring.

*connection*: two connections in turn, so that a nonce of the first can be tried
on the second; three messages on each, of which two may be on their way ahead of
the answers: a refused one, its retry with the digest, and one behind it. At
most 4 headers and 2 body bytes (128 and 8 MiB in the code), with messages
exactly at each limit and one over it. About 400,000 states.

*sessions*: two connections, two playback threads (`OneOwner` and `OneSink`
leave no use for a third), metadata only (artwork is latched by the same code;
the proofs cover both), two contents, at most two SETUPs without TEARDOWN
(`MaxStarts`), one FLUSH of a connection under way at a time. Connections are
reopened without limit. SETUP may fail after it took the slot; the receiver has
a password.

*stages*, the clock: circle 18, 2 frames in a second of 3 ticks, so that half of
the divisions round, 5 frames with timestamps that wrap after two, skew 5,
requests every 3 ticks, delays of up to 2, service of up to 1, a window of 2
samples, 6 ticks: three requests, the window full and a sample dropped. `MaxDelay
< Interval` is the assumption of the proofs as well; section 7 says what happens
without it. *The thread*: prebuffer 2, 5 commands: enough to fill, release, flush
and fill again with one to spare. *The position*: 7 timestamps, seconds of 2
frames, tracks of up to 5 frames that start at 0 or 5, so some cross the wrap.

*undecodable*, *progress_after_end*: one connection is enough.

*dashboard*: two clients, one of which may stop reading; a channel of 1, so that
lagging is the normal case; 3 events, 1 loss or restart.

*display*: a terminal of 80 by 24 cells, one a column wider, where no box moves,
and one too low for a picture; a track of three lines with its artwork, a
position that moves the box, artwork that cannot be decoded, artwork outside a
session, and the end of the session; delays 1 and 2; one update in the channel
(the display may take any number of turns between two). There is no bound on the
number of messages, resizes, losses or restarts: the state space is complete.

## 5. Fairness and deadlock

* `AudioReceiver`: the service tick is a `tokio::time::interval` and fires again
  and again (`WF`); the network lets some of infinitely many repeated requests
  and replies through (`SF`); the sender owes nothing else and may fall silent.
* `Connection`: what was written arrives and the handler runs (`WF(Server)`);
  the sender need not send, hang up or come back. That `Handle` is fair says
  that the methods return; the one case where one does not is that of
  `undecodable`, which `HandlersReturn` names.
* `Sessions`: a handler that has started, the audio task and the playback
  threads run on (`WF`); senders owe nothing, not even the end of a session. That
  a thread without a decoder ends assumes a worker of the runtime that drops the
  aborted audio task while a handler blocks in `join`.
* `PlaybackThread`: the OS schedules the thread, whose waits are capped and
  whose writes return; the handler that joins goes on; the runtime drops an
  aborted task if a worker is left (`WF`).
* `Dashboard`: the receiver's tasks run and its clients reconnect (`WF`); only
  `Readers` read.
* `Display`: the client's task runs, the display takes an update in the end
  (`select!` is fair to its branches), and the kernel reports a connection that
  its other end closed (`WF` of `Task`, `Take` and `Broken`). A connection attempt
  may fail while the receiver is up; that not all of infinitely many do is
  assumed (`SF` of `Connect`). A vanished machine is reported by nobody: `deaf`.
  `Reconnects` assumes, as its premise, that the receiver stays up, the user does
  not quit, connections stop breaking, and the last one is not half open.

`CHECK_DEADLOCK FALSE` stands in the configurations whose behaviours end at a
bound (packets, commands, ticks, events, messages), where the program stops
(`display`, a playback thread in `stages`), and in `undecodable`, where the
handler that waits for ever with its only connection is the counterexample. In
`sessions` deadlock is checked.

## 6. Proofs

All theorems are for every value of the constants that satisfies the named
assumptions (`SeqSpaceAssumption`, `RingAssumption`, `SessionsAssumption`,
`ConnectionAssumption`, `ClockAssumption`, `ProgressAssumption`, and those of the
other modules); TLC evaluates them in the runs. They are statements about specifications (`Spec => ...`), without bounds
on sequence numbers, messages, connections, clients or time, except for
`MaxPackets` and `MaxTime`, which are parameters like the others and can be as
large as one likes. Where a theorem needs more than the module assumes, it says
so in an `ASSUME` of its own: `PromptStream` and `NoLap` (audio) and
`MaxDelay < Interval` (clock).

* **Jitter buffer** (`AudioProofs`: `WindowTheorem`, `TypesAndFrames`,
  `HighestTheorem`, `MissingTheorem`, `RingImplementsSet`). The code's constants,
  65536, 512 and 128, satisfy the assumptions. The invariant places each stored
  frame in its own slot and between the next and the highest number
  (`NoAliasing`), and says that the highest number is less than a ring ahead and,
  while not behind, stored (`HighestStored`). `NoAliasing` alone is not inductive:
  when the front gap is given up, one needs to know that the highest is still
  there. Since the window is shorter than a ring and the ring divides the circle,
  two numbers in it never share a slot (`SlotInjective`): that is the arithmetic
  everything else rests on. `RingImplementsSet` maps insert to `Arrive`,
  `pop_ready` to `Release` and reset to `Restart`.
* **Audio task** (`AudioProofs`: `ConcealsTheorem`, `FramesTheorem`,
  `TimestampsTheorem`, `NoStaleTheorem`), for streams of any length; the one
  about timestamps ends half a circle after the anchor, where the code stops
  being right (section 7). Packets have absolute numbers here and the code sees them on a circle, so the point is that
  the circle is never lapped: `Reach` says that all that was sent is less than
  half a circle from the next packet to deliver. Under it `seq_diff` is the
  difference of the packets, and the ring holds a stretch of the stream and
  nothing else (`Window`). `Reach` is not inductive; it follows from `Near`, by
  which the newest packet that arrived is never far ahead of the next to deliver,
  and the bound on outages. `FInv` adds what was handed over (`Played`) and that
  nothing of before the cut is (`Fresh`). Two assumptions are about the network:
  - `PromptStream` (for `ConcealsInTime`): the lead at which a gap is conceded
    and an outage fit into the ring together, `MaxLead + Outage <= Capacity`, and
    after a FLUSH that names its packet, a packet is overtaken by at most
    `MaxLead` others. With the code's 512 and 128 that admits outages of up to 384
    packets, about 3 s; `audio_outage` shows that the property fails beyond a
    ring.
  - `NoLap` (for the others): the stream is too short to lap the circle, or
    outages and reordering fit into the ring together and, if a FLUSH may come
    without a sequence number, so does what the sender keeps for retransmission.
    The last part is needed because such a FLUSH lets any late reply decide where
    the stream goes on.

  The constants of `MCAudio` satisfy both.
* **Connection** (`WholeTheorem`, `AnswersTheorem`, `DeniedTheorem`), for
  messages of every kind and number and all limits. `Framed` says that in what
  is left of the stream there is a place where each unanswered message begins,
  and that its items stand there from then on, up to where the sender hung up.
  The places exist; nobody knows them. The reader has read as many items of the
  first message as its request says (`Position`), and they were the right ones
  (`Begun`). Taking an item moves all places by one, a whole message moves the
  first one out, sending adds one behind. What this needs from the code is that
  the reader never takes an item more than its message has: a message that does
  not state truly where it ends (a length that is no number) closes the
  connection before anything behind it is looked at, and everything answered was
  well formed (`Served`). The gate follows from the answers so far: the session
  has a nonce exactly if it refused something, and is authorized exactly if one
  message proved the password (`Gate`); that the verdict is never withdrawn makes
  `DeniedUntilProven` inductive with it.
* **One owner, one sink** (`SessionsProofs`: `OneOwnerTheorem`,
  `OneSinkTheorem`), for any number of connections and threads. That a live
  sink's connection holds the slot is not inductive: the strengthening says that
  a live thread is the current or the replaced player of its connection
  (`ThreadsOwned`), that a replaced one exists only while SETUP waits for it, and
  that SETUP holds the slot from its first step (`HandlerInv`). `OneSink` follows
  from it without another induction. `TypeTheorem` is the type invariant of the
  run.
* **Events** (`StartedAloneTheorem`, `DecorationTheorem`, `UpToDateTheorem`,
  `OverlapTheorem`, `ProgressTheorem`). The latch needs one equation that every
  step keeps: what the sender last said is what is pending or, where nothing is,
  what the host shows (`LatchInv`). The last two rest on `HeldInv` (a connection
  that streams holds the slot, except after the release of its TEARDOWN) and
  `PlaysInv` (a thread lives inside its session or while its connection is
  dropped); that no thread is left when TEARDOWN reports the end comes from the
  join before the release.
* **The slot** (`SlotTheorem`): the sessions implement `StreamingSlot`, step by
  step. Most steps are `Quiet`; SETUP is `Acquire` (or nothing, on a connection
  that holds the slot), `Start` and `MakeSink`; the join of TEARDOWN or of `Drop`
  is what makes `Release` possible, and `StopThread` and `DrainEnds` are
  `DropSink`. The invariants above are what the guards of the abstract steps need; that a session
  starts alone (`StartedAlone`) is one of those guards.
* **The gate of the sessions** (`StrangersTheorem`). `GateInv` says of a stranger
  that its connection is idle and untouched, and of a closed connection, which a
  stranger may open next, that nothing is left on it. The theorem holds with and
  without a password: without one nobody stays a stranger.
* **Clock** (`OffsetTheorem`, `StartTheorem`), under the assumption that replies
  arrive before the next request leaves (`MaxDelay < Interval`; the code waits
  300 ms after each of the first three requests and 3 s after the others, and
  `Interval` is a lower bound), for every `Second` and `SampleRate`: the
  division of frames into ticks costs a tick, in whichever direction it rounds.
  The invariant follows the four times of an exchange (`Causal`), with `Paired`:
  a request in flight is the last one, or too old to be answered.
* **Playback thread** (`PlayerProofs`: `NothingLostTheorem`, `PrebufferTheorem`,
  `StartTheorem`), for every prebuffer, any number of commands, and all cases.
  The invariant is about the gate (`Gate`): shut, everything since the last
  flush is in the prebuffer; open, nothing is. A chunk under way before anything
  was heard is at least the prebuffer, and starts with the frame whose timestamp
  was kept (`First`).
* **Position** (`PlayerProofs`: `FollowsTheorem`), for every rate, every circle
  of timestamps longer than a second (44100 < 2^32) and every track, one as long
  as the circle included. `FollowsAudio` says that the host is right after a
  second; the invariant has to say what is true earlier. Between two frames the
  second reported is that of the last frame, and either the host was told that
  very position or all that was played since the last progress line still lies
  within that second (`Reporting`); while the thread is about to report, the same
  holds of the frame in its hands, and its copy of the track is the current one
  (`Copied`). A second of audio leaves only the first case.
* **Dashboard** (`CaughtUpTheorem`), for any number of clients, any messages and
  capacity. The invariant is about one field at a time: what counts is the last
  message on its way to a client that sets the field, be it in the publisher's
  hands, in the client's queue or in its socket. That one carries what the
  snapshot says, and where there is none the screen says it already (`Follows`).
  A client that lags owes nothing until it was sent a new snapshot, and while the
  queue has a message for the field nothing is known about the socket, where a
  newer snapshot may be ahead of an older message. That the fold and the send are
  not atomic costs one conjunct, `FoldedIsNewest`.
* **Display** (`PictureTheorem`, `TypeTheorem`), for every set of messages,
  artwork and sizes, and every way in which the client behaves. Comparing with
  `drawn` is enough as far as the belief is right (`Belief`): what is believed
  drawn was drawn and is still there unless a resize erased it, and where
  nothing is believed there is nothing, unless a deletion is still in the buffer.
  Those two, and what iTerm2 keeps of earlier pictures, are the exceptions of
  `PictureIsCurrent`; that no other terminal keeps any is part of it. The type
  theorem says of `layout` that no box has a negative size, whatever the
  terminal's.

Out of the prover's reach are liveness under fairness and induction over data;
they stay with TLC (section 8), and no module here declares a recursive operator.

## 7. Where the code and its documents disagree

Five are shown by runs that TLC finds violated, each on a property that states
what a document says:

* `audio_outage`: `insert` (`jitter.rs:90`) drops a packet 512 or more ahead and
  leaves `next_seq` and `highest_seq` alone. The first packet after an outage of
  a ring (about 4 s of audio) is rejected, and although the newest is a ring
  ahead, nothing of the gap is conceded. `jitter.rs:6-8` says that a gap which
  cannot be filled "before the buffer runs too far ahead is skipped and reported
  as lost". The packets after it meet the same rule, until a FLUSH or until their
  numbers have gone round the 16-bit circle and fall into the window again, some
  65,000 packets later; the run shows the first.
* `progress_after_end`: a closing connection reports the end (`session.rs:584`)
  before the fields are dropped, the player with its thread among them: a
  Progress event may follow SessionEnded, against `events.rs:72-73` ("Delivered
  only between"). `ProgressEndsWithPlayer` shows that this is the only case.
* `undecodable`: a thread without a decoder throws `Stop` away and waits for the
  channel to close (`player.rs:163`, 213-215). A second SETUP joins it
  (`session.rs:354`) while the audio task of the first stream, which nobody
  aborted, holds a sender: the handler, its connection and the slot are stuck.
  `player.rs:67` says of the player "Dropping it stops the thread and drops the
  sink." `HandlersReturn` shows that no other handler is stuck, `DropReturns` the
  same of the channel, where the last worker of the runtime blocked in `join` is
  a second case.
* `reboot`: a receiver whose machine fails does not close its sockets, and
  `session` reads without a timeout and sends nothing (`client.rs:66`). The
  client stays on the dead connection for ever, even when the receiver is back.
  `client.rs:4-7` says that it "may live on a machine that reboots", and that the
  display shows "the connection state rather than a stale screen".
* `resize`: ratatui clears a terminal that was resized, and the picture with it;
  if the box has not moved (80 to 81 columns) the loop believes the picture is
  still there and does not send it again (`tui.rs:459`).
  `plans/20260803-04-tui.md:131-132` says that resize events "re-place the
  artwork", and 447 that it "re-places correctly after a resize".

The others were met while modelling. The properties above are stated so as to
hold with them, and say where they stop.

Audio:

* `derive_ts` (`session.rs:803`) takes the signed distance to the *first* packet
  and clamps a negative one to 0: after 32768 packets (about 4 min) the
  timestamps freeze at the anchor's for as many more. `session.rs:799-800` says
  they advance with every sequence number. The timestamps feed the position the
  host shows. `TimestampsNearAnchor` ends half a circle after the anchor.
* `FLUSH` without a sequence number: the first packet to arrive defines the
  position, a stale one included (`jitter.rs:74-75` says "so stale audio isn't
  played"); hence the condition `named` in `NoStaleAudio`.
* After a FLUSH a resend reply may come before any packet set the anchor; it is
  delivered with timestamp 0. A packet *before* the anchor gets the anchor's
  timestamp.
* An undecodable packet is dropped without silence in its place
  (`player.rs:188`): what follows plays one packet early. `NothingLost` is about
  audible frames.
* A late timing reply is paired with the next request (`session.rs:910`), which
  makes the round trip look short and the offset wrong by the delay; the clock
  of `stages` assumes it away by name (`MaxDelay < Interval`).

Sessions and connections:

* `Flushed` is sent before the flush has reached the audio task
  (`session.rs:429-432`); `events.rs:81-82` says the buffers were "already reset".
* TEARDOWN releases the slot before it reports the end (`session.rs:417-418`):
  another sender's SessionStarted may come before the first one's SessionEnded.
  `OverlapOnlyInTeardown` shows that this is the only such window.
* A second SETUP on a streaming connection reports a second SessionStarted but
  only one SessionEnded will follow, and two sinks live until the first thread
  is joined (`OneSink`).
* A SETUP that fails after it took the slot keeps it until the connection
  closes or tears down (`session.rs:283-315`).
* `set_progress` subtracts with saturation (`session.rs:505-506`): a track that
  crosses the wrap of the timestamps gets duration 0, which `events.rs:77-78`
  reserves for streams without an end, until the playback thread reports.
* Before its first refusal a connection has no nonce, and the gate computes the
  digest over an empty one; the realm, the user name and the URI in the digest
  are the ones the sender states. `DeniedUntilProven` says so (`Proves`).
* An empty line in place of a request line counts as the end of the connection
  (`rtsp.rs:52`), with requests that may be waiting behind it; an error of
  `accept` ends `serve` for everybody (`server.rs:50`).

Dashboard:

* At SessionEnded the dashboard keeps the volume on the screen (`tui.rs:169-176`)
  and the receiver's snapshot drops it (protocol `lib.rs:211`), while the
  receiver's gain stays as it is; after a flush the dashboard keeps the position
  and the snapshot does not. `Agrees` is stated accordingly.
* A connection that worked and ends with a socket error does not get the "fresh
  backoff" of `client.rs:41`: `frame?` (67) returns an error, which keeps it.
* Artwork that cannot be decoded is recorded as nothing drawn (`tui.rs:487`), so
  the next redraw wants it again, decodes it again, and so on, against the
  comment "rather than retrying it on every redraw" (484-485). The return also
  skips the flush: the deletion of the picture before it stays in the buffer
  until ratatui flushes at the next redraw (`held`).
* While "connection lost" is shown the artwork stays on the screen.
* On iTerm2 a picture that is no longer due is not deleted (`images::clear` has
  no escape for it), nor is one that moves or shrinks: what the next one does not
  cover stays until text is written over it or the terminal is cleared
  (`remains`).
* An answer of the terminal that comes after the probe gave up is read by the
  display as keys, and the ESC it starts with quits.
* `Exit::Disconnected` is never returned: the client's task ends only after the
  display.

## 8. What is only model-checked, and what is not modelled

Only model-checked: all liveness (`HeldBackIsPlayed`, `Answered`,
`HandlersReturn`, `DropReturns`, `ReadersBecomeCurrent`, `Reconnects`,
`NoStaleScreen`), which needs fairness and what it makes possible;
and the pure functions, on small inputs: what a walk over DMAP entries or over
the lines of an ANNOUNCE finds is a statement by induction over the data.

Abstracted: audio is an identity per packet; metadata is a value per kind;
decoding, decryption and the digest are choices; the volume's conversion to gain
and the text on the wire are left out, as are the characters of an RTSP line,
the bytes of the escapes and the wording on the screen. The bar of the position
and the scaling of pictures are layout. Pings of the dashboard connection and the
observer that the tests install are left out. Socket errors of the receiver's
own UDP sockets, which end a task, are not modelled. What `TerminalGuard` leaves
on the screen when the display ends depends on a write that may fail and on the
terminal; it is not followed.

Not modelled: the ALSA sink (receiver's `player.rs`). Below the 500 ms of its
device `writei` does not block, so how deep the queue is follows from the times
at which audio comes: the backlog of up to two seconds that is written at once
after `await_start_instant`, bursts after a gap, undecodable packets. Whether
`drift_correct` keeps it near its target is a question about rates and sizes,
not about order, which a model without real time does not answer; the hazards
are in `PROJECT.json`, and gain is arithmetic on samples. RSA, AES and MD5
(libraries: the callers' view is in `Connection`, `Announce` and `Datagrams`);
ALAC decoding (a library; `PlaybackThread` takes its verdict as a choice); mDNS
and the command line (calls made once at start).

## 9. Plan

Built so far, in this order: the jitter buffer with its abstract specification
and proofs; the audio task around it; the sessions with their proofs; the clock;
the playback thread; the position; the dashboard and its client; the connection
under the sessions with the gate; the readers of datagrams and bodies; the
display with its picture; the proofs of the playback thread, the display and the
rest of the sessions; and those of the audio task, the connection, the position
and the dashboard, after which no safety property of a passing run is without
its theorem; the slot that the sessions implement; and the thread without a
decoder, the failing attempts to connect, and the remains of pictures, each with
the run that shows the disagreement it leads to. `AudioReceiver` composes
`JitterRing` with the sender and the network, `Display` composes
`DashboardClient` with the screen; `Sessions` and `PlaybackThread` look at the
same thread from its two sides, the slot and the channel, and `Connection` and
`Sessions` at the same gate.

Left, for the model:

1. `Stream`: `AudioReceiver` and `PlaybackThread` composed: what the sender sent
   is heard in order, silence in place of what was lost, across a FLUSH that
   passes both channels.
2. An abstract specification of the fan-out for `Dashboard`. It cannot be a log
   with a place per client: a snapshot that overtakes queued messages has the
   screen go back, field by field, before it catches up.
3. The end of a task whose socket fails, and the silent session after it.

Left, for the proofs:

1. The refinement of the specification of the fan-out: the invariant it needs is
   there (`IInv` of `DashboardProofs`).
2. `Admitted` of `Sessions` as an abstraction of `Connection`: a message that was
   proven stays so until the connection closes, from `Gate`.
3. That each reader of `Datagrams` undoes its writer for all values of the
   fields, not only for the small ones of `MCConnection`.
