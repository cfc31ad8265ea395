# eufy_cam in TLA+

This directory holds TLA+ modules for the server that connects to Eufy stations
over their P2P protocol and serves camera video to browsers, players and a
command line client (Go, `src/`). TLC checks them on small instances, and TLAPS
proves the properties that matter most for every value of the constants.

    tlc -workers 2 -config video_safety.cfg MCVideoReceive     # one run
    tlapm VideoReceive_proofs.tla                              # one proof module

PROJECT.json lists the runs, the definitions with the source lines they model,
a mutant of the code for each property that a passing run checks, the findings,
the hazards and the theorems.

## The system

A browser asks for `/api/stream/<device>`. The request counts as a consumer of
the device's channel, starts the livestream if there is none, and then polls the
channel's session for frames. The session is filled by the callback of a P2P
client, which runs in the client's `readLoop` goroutine: that loop turns UDP
packets into ordered packets, and those into frames. When the last consumer
leaves, a timer stops the stream after a grace period.

| Component | State | Operations | Talks to |
|---|---|---|---|
| P2P video receive path, `pkg/p2p/client.go` 729-1054 | expected sequence number, queue of packets ahead, frame under reassembly per channel | one packet arrives; drain; resync | ACKs to the station, `onVideoFrame` |
| P2P connection, `client.go` 202-723, 1228-1350, 1526-1583 | connected, connecting, remote address, key | Connect, discovery, handshake, heartbeat, Close | station, cloud lookup servers, cloud API |
| P2P data and commands, `client.go` 750-804, 1065-1175, 1352-1503 | expected number, queue and message builder of the data channel, command number | SendCommand, ACKs, answers | station |
| Session, `pkg/stream` | ring of frames, last keyframe, timestamps, health | AppendFrame, GetFramesSince, staleness, StartStream, StopStream | filled by readLoop, read by consumers |
| Serve loop, `handler.go` 280-446 | bound session, last frame ID, remapper | poll every 50 ms | session, restartStaleStream |
| Stream lifecycle, `handler.go` 42-147, 519-573, 759-1043 | consumer counts, grace timers, `streamOpLock` | join, start, stop, expire, restart | station, session map |
| Station, `pkg/devices/station.go` | main P2P client, a client, a key and the channels per device | connect, reconnect, StartLivestream, StopLivestream | P2P clients |
| Supervision and start-up, `cmd/server/main.go` | last attempt per station | connectStations, superviseStations | stations, cloud API |
| Cloud API and login, `pkg/api`, `handler.go` 591-735 | token, saved login request, captcha | login, captcha, keys | Eufy cloud |
| Command line client, `cmd/cli` | heartbeat, fan-out writers | pump, heartbeat, serve | HTTP server |

What makes it hard, component by component:

* *Video receive path.* UDP loses, duplicates and reorders; the station sends
  go-back-N bursts again; sequence numbers are 16 bits and wrap. Correct means: a
  packet is processed at most once and in order, frames are never mixtures, the
  queue is bounded, and the receiver gets on.
* *Session.* The camera restarts its clock, keyframes are rare, the buffer is
  trimmed in front of its readers. Correct means: timestamps increase, a reader
  gets only what it can decode, and a dead feed is restarted while a waking
  one is left alone.
* *Lifecycle.* Consumers, timers, API calls and restarts run concurrently, and a
  start blocks for up to a minute. Correct means: the count is right, a stream that
  is watched goes on, one that nobody watches ends, and no feed runs without a
  session.
* *Station and supervision.* Calls wait tens of seconds without the mutex, each
  login starts a loader of its own, and the supervisor runs beside them. Correct
  means: no client is lost while it is open, a station whose connection died is
  connected again, and a stream whose connection broke is fed again.
* *Connection.* Answers of several lookups race; Close does not wait for
  readLoop. Correct means: connected to a peer that answered as the station and
  to one at a time, a key before anybody sends a command, and every goroutine of a client
  that is closed ends.
* *Data channel.* Messages and packets have different boundaries, and the parser
  keeps what it cannot read yet. Correct means: what is handed on is what the
  station sent.
* *Login.* Server, API client, cloud and every open page each have their own idea
  of the login. Correct means: whatever they do to each other, an answered captcha
  gets in.
* *Command line client.* One reader feeds consumers that come, stall and go.
  Correct means: each gets everything once, nobody waits for ever, and the server
  is told to stop before the process ends.

## Modules

### SeqNumbers, VideoReceive, InOrderDelivery

`SeqNumbers` is the arithmetic of the ring with its size as the constant
`Modulus` (65536 in the program), and `isSeqBefore` as it is coded.
`VideoReceive` is `handleDataMessage` for video packets and all it calls. A packet
is named by its position in the stream, and only its sequence number is compared.
`Deliver` is `readLoop` taking a packet from the socket: ACK, then
`HandleVideoMessage`, which processes, drops, queues or resyncs. `processVideoInOrder`
empties the queue in a loop: `pc = "drain"` is that loop, one packet per `Drain`,
and no packet is read meanwhile. `Resync` chooses with `Lowest` among every result
the scan of Go's randomly ordered map can have. `ProcessVideoPacket` reassembles
frames per channel. Frame data is abstracted to its number of bytes.

Outside the code are the station (`Send`, `Retransmit`, `Abandon`: a go-back-N
sender, as the comments and tests in `src/` describe it), the network (`net`,
`Lose`, and `Deliver` leaving its packet there as a duplicate) and time
(`Tick`). `GiveUp` says whether the station may abandon a packet. `InWindow` keeps
the network from delivering a packet more than half the ring late or early: no
circular comparison could tell.

`InOrderDelivery` is what the rest of the program relies on: packets are taken in
order, with holes, and frames handed on are unbroken runs of packets from a header.
The refinement needs no mapping: `sent`, `high` (the packet processed last, a
history variable) and `out` (the frames handed on) exist in both.

### StreamSession

The session's methods, one action per use: `FeedFrame` and `LateFrame` are
`onVideoFrame` with `AppendFrame`; `Poll` is one turn of `serveStreamFrames` with
`GetFramesSince` and `ptsRemapper`; `RestartBegin`, `StartDone` and `StartFails`
are `restartStaleStream` before and after the blocking `StartLivestream`;
`EnsureBegin`, `EnsureStart` and then again `StartDone` or `StartFails` are
`ensureStreamLocked`, with the moment between the stop of the old session and the
start of the new one, in which the serve loop can look. `holder` is the
`streamOpLock`, `waiting` the restart goroutines that want it.

The camera is asleep, waking, sending or silent; `epoch` counts its encoder
sessions, so that "decodable" can be stated. A closed client may still deliver
frames, at most `MaxLate` of them (`late`), into whatever session is there by
then: `Client.Close` does not wait for `readLoop`, and `onVideoFrame` finds the session by its
key. In the code these are the frames that end with the packet in the hand of `readLoop` and
with the packets queued behind it, up to 1024 of them. A late frame has `epoch` 0, for it is of none
of the feeds that follow. The client closed before that one has long ended, since two
restarts are a cooldown or the time of a stale session apart.

Left out: `awaitKeyframe` and codec detection (only messages read the former; the
latter chooses a muxer), the station lookup of `restartStaleStream` failing, and
`StopStream` freeing the frames of a session object that nobody finds any more.
Timestamps are integers: the wrap of `uint64`, which the code uses for negative
offsets, cancels out as long as the sums do not exceed 64 bits.

### StreamLifecycle

`watcherSet.add` and `remove`, and `time.AfterFunc` timers as a set, because a
timer that has fired is no longer the one in the map: `pending`, `fired` (its
goroutine waits for the set's mutex) and `expiring` (it saw a count of 0 and
waits for `streamOpLock`) are the points where others come in between.
`EnsureBegin` (the stale session is stopped), `EnsureStart` (the new one is made) and
`EnsureEnds` (`StartLivestream` came back) are `ensureStreamLocked`, with the lock
held over its blocking call; `RestartBegin` and `RestartEnds` enclose the same call of
`restartStaleStream`, which too many invalid frames start as well as staleness.
`Clients` are requests of `StreamHandler` and `RawStreamHandler`,
`Heartbeats` those of `StreamWebSocketHandler`, which count as consumers but start
nothing. A session is only an ID here, stale or not (`GoStale`, `FrameArrives`); the session
itself is the other module's. One channel of one device is modelled; other devices share
nothing but the maps' mutexes.

`StreamHandler` reads the session without the lock, `RawStreamHandler` with it;
`Reuse` has no lock and so covers both. `Watch` looks the session up and counts the
heartbeat in one step; the states in which a heartbeat remembers a session that is
gone are reached anyway, since `ApiStop` needs no agreement of a watcher.

### P2PClient, Connection

`P2PClient` is what the rest of the program can see of a client: four flags, which
`WaitForConnection`, `WaitForEncryption` and `IsConnected` read, and the order in
which they may change. A client that an END took down can come up again, and
even one that was closed, if `readLoop` had the CAM_ID in hand: the abstract
specification says so because the code does it.

`Connection` is one client from `NewClient` to the end of its goroutines:
`DiscoveryTick` and `DiscoveryStops` are `discoveryLoop`, `SendGatewayInfo` the
goroutine that a CAM_ID starts, everything else `readLoop`: `Read` takes a message
from the socket, `Handle` runs its handler up to the next lock or blocking call, and
`pc` is where it goes on (`announce`: the flag is set and the channel not yet closed;
`cipher`: `GetCipher` asks the cloud; `signal`). `asked` is the set of requests ever
sent, and `Answers` what may come in return to each, late, again or never. The four
`Paths` stand for the station in the local network, in the world, behind the
cloud's relay and behind TURN. `ImplementsP2PClient` is the refinement; its
mapping takes the flag as reached from the moment it is set.

Abstracted: the three ports on either side that `connectToAddr` tries, the several
cloud servers and the four copies of a CHECK_CAM2, which are one message each; the
map `turnHandshaking`, of which one address is used. `heartbeatLoop` sends PINGs
and nothing reads the PONGs: neither changes state. `Connect` after an END is possible
in the code and made by no caller; each client is connected once. It does not look whether `Close`
was called, and a `Close` before it leaves nothing behind, since there is nothing to cancel
yet: `closed` is any `Close`, `cancelled` only one that found the loops' context.

### DataChannel

The ordered branch of `handleDataMessage` and `parseDataMessage`. The station's
messages are one stream of bytes, named by their positions, and `Cuttings` is every
way to cut it into at most `MaxPackets` packets, chosen at the start. `Deliver` is a
packet from the socket, `Parse` one turn of the parser's loop, `NextQueued` one turn of
the loop that empties the queue. `Header`, `Magic` and `Far` are parameters, so that a
small instance has every boundary the program has: a header cut in two, a rest as long
as a header, and numbers that wrap within a message. A payload never begins with the
magic word here; in the code it could, and nothing tells it from a header. `Sorted` says
what `sort.Slice` gives, a sequence in the order of the comparison, and not how.

### StationSupervision

One station, the runs of `loadAndConnectStations` (one per successful login) and
`superviseStations`. `ConnectWithAPI` is `Enter` (the new client is published), `Open` or
`OpenFails` (`Connect`), `Released` (twice), `TimedOut` and `Clear`, split where the mutex is
free; `ReconnectMain` is `TakeOld`, `CloseOld` and then `Enter`. The clients take their steps
from `P2PClient` (`client[i]` is its `status`); `link[i]` is whether the socket and the loops are
not there yet, run, or were ended by `Close`. A client that `ReconnectMain` takes and closes between
`Enter` and `Open` is opened all the same, since nothing remembers that `Close`. `session[i]` is whether the
station still knows the client, which only the station can tell. An identity is used again when
nobody holds its client and it does not run. Left out: the stored timeouts, and the supervisor's
cooldown of 45 seconds, which only makes it slower.

### StreamClients

`StartLivestream` and `StopLivestream` for the channels of one device, as
`ensureStreamLocked`, `restartStaleStream` and `stopLivestream` call them under
the device's lock: `Ensure`, `Restart` and `Stop` begin a call, `Lookup`, `Reuse`, `Connect`
and `SendStart` are the parts of `StartLivestream`, `Return` its end in either caller. The
connection is up, down (an END) or mute: the station has forgotten it and the
flag is still set. `feed` is what the camera sends. Sessions are none, waiting, fed,
stale, or corrupt (so many invalid frames in a row that `NeedsRestart` says so); the thresholds are
StreamSession's. A restart is of a stale or a corrupt session, a start of a stale one or none.

### Login

`Login`, `LoginWithCaptcha` and `postLogin` (`CallApi`, one step under the API
client's mutex), the handlers before and after it (`Submit`, `Refresh`, `Respond`),
`attemptLogin` (`BootDone`) and the page in its tabs: `CheckStatus`, `FetchCaptcha`, `Poll`.
A challenge is a number, of which only the difference counts; an answer is right or
wrong for the challenge its user saw, and the handler sends it with the challenge the
server holds. `Load` stands for the loader, whose failure nobody repeats.

### Broadcast, Relay

`Relay` is the command line client: `pumpStream` (`Fetch`, `Wait`, `BodyEnds`,
`Chunk`), `fanWriter` with its mutex (`WritePipe`, one pipe at a time, `DropBroken`, which
takes the broken ones out by index, the last first, and `EndWrite`), the handler of each HTTP consumer (`Connect` to
`RemoveWriter`), and `hb.close`, called by the signal's goroutine and by `doStream` when the
pump ends: `RunOnce`, `SendStop` and `Return` are `sync.Once`, whose second caller
waits for the first. The process ends by itself (`Exit`) or a signal kills it: only SIGINT and
SIGTERM are notified (main.go:386), so a chunk written to standard output whose reader is gone kills it by
SIGPIPE (`Chunk`), and SIGHUP may at any point (`Killed`). A killed process sends no stop request; the server
sees its heartbeat leave and is left to its grace timer, as in `StreamLifecycle`. `Broadcast` is the promise to the consumers, which `Relay` implements.
Left out: an HTTP listener that fails at start, and the goroutines that send the pings
and log the number of consumers.

## Runs

| Run | Question | Bounds, and why they are enough |
|---|---|---|
| `video_safety` | frames whole, in order, once; queue ahead, bounded, lossless; refinement of `InOrderDelivery` | 7 packets on two channels, frames of 3, 2 and 1 packets and an invalid header; queue limit 2, window 4, ring 16: losses in front of, inside and behind a frame, both causes of a resync, duplicates of everything |
| `video_progress` | the receiver reaches the end and the station stops | 5 packets, window 3, fair network |
| `session_buffer` | buffer and key position, timestamps, decodability, the consumer's timeline | buffer of 2 frames or 3 bytes, 3 frames, 2 feeds, 2 sessions, one late frame, every kind of frame (key, delta, invalid, empty) and clock (on, ahead, reset); 2.9 million states |
| `session_restart` | a waking camera is left alone, a dead watched feed is restarted | thresholds of 1 and 2 ticks, wake time 1, two restarts waiting, one late frame, 2 bad frames to a restart |
| `lifecycle` | counting, no feed without session, an abandoned session is stopped | 2 clients, 1 heartbeat, 2 timers at a time, grace of 1 tick, 2 sessions |
| `connection` | the peer answered and stays, a key before commands, Close of a connected client ends everything, refinement of `P2PClient` | 3 lookups (one of each kind), 1 END, every answer any number of times: all four paths race each other, before and after an END |
| `data_channel` | messages whole, none lost, all answered | messages of 1, 0 and 5 bytes, headers of 3 of which 2 are the magic word, cut into at most 4 packets in every way, window 3, a wrap within the stream |
| `supervision` | leaks bounded, the station recovers | 2 logins, 3 clients at a time, 1 END, 1 silent death. An identity is in use while its client runs or is held. A login that has not ended holds one at most, and each lost client stands for one that has ended (`Account`, see Proofs), so that there is always one for whoever enters. The view leaves out what a collected client was, which no action reads; 0.4 million states, three minutes |
| `login` | whoever answers the captcha gets in | 2 tabs and the attempt at start-up, 1 other error, 1 expiry; 7 challenges, so that a new one is always there |
| `stream_clients` | the maps agree, sessions are fed or removed | 2 channels, 4 faults: enough for each channel's feed to stop or turn corrupt and the connection to break again during the repair |
| `stream_clients_half_open` | *violated*: a restart recovers from a half-open connection | the same |
| `relay` | each chunk once to each consumer, handlers end, stop before an exit that no signal forces | 3 consumers: one that writes is delayed by one, while another goes and a third comes; any number of chunks |

Two consumers are enough for "last one out" to differ from "one out"; two timers
for a fired one to meet a newer one; two sessions for an ID to be outdated. Every
clock stops at the first value beyond its threshold, so time is not bounded.
Deadlock is checked in the runs of the video path, the session, the lifecycle, the data
channel and the stream clients; the others really stop: a client is closed, the logins have
all been made, a page only polls, the process ends. It is the liveness properties that
show the system gets on.

`Decodable` excepts late frames and no others. A frame that is no keyframe follows the one
before it in the same session, without a hole; and both are of the same encoder session unless one
of the two came late. That exception is what the code does: a late keyframe appended after `ClearBuffer`
makes the new feed's delta frames servable until its first keyframe, and a late delta frame is served to
whoever reads. `NeverMidGOP` is the property without it, and finding 14.

### Fairness

* `video_progress`: weak fairness of `Drain` (the goroutine runs), `Send` and
  `Retransmit` (the station), and strong fairness of delivering a packet together
  with its ACK: a network that loses each copy for ever allows no progress.
* `session_restart`: weak fairness of the serve loop (it has a 50 ms ticker), of the
  goroutine that waits for the lock, of the end of a `StartLivestream` (all its waits
  have timeouts) and of time. None for the camera.
* `lifecycle`: weak fairness of the end of blocking calls, of timers and of time;
  strong fairness of `Expire`, because Go's mutexes hand over to a waiter that has
  waited for a millisecond. None for consumers, who may stay or stay away.
* `connection`: weak fairness of the goroutines; reads have a deadline of a second,
  `GetCipher`'s request a timeout of thirty. None for the network.
* `data_channel`: weak fairness of `readLoop` and of the station's sending, strong fairness
  of delivering a packet together with its ACK.
* `supervision`: weak fairness of the supervisor (requests and waits have timeouts, the
  ticker ticks), and none of the logins, each of which may get stuck where it is. Strong fairness
  that of ever new attempts of the supervisor one gets its socket and is answered in time is an
  assumption about the network: without it nothing could ever be connected. The two runs by
  hand take the logins as fair too (`FairLoginsSpec`): what they show is no login that got stuck.
* `login`: weak fairness of calls, handlers and the page's timers. Users need do nothing; that one
  goes on answering is the premise of `CaptchaGetsIn`.
* `stream_clients`: weak fairness of waits, frames and staleness, strong fairness of `Restart`
  (the monitor passes again and again, and the lock is granted in turn), and, as an assumption,
  that of ever new attempts one connects and one command is heard. A corrupt feed need not get
  better by itself.
* `relay`: weak fairness of the writer and the handlers, strong fairness of taking the mutex.
  `Forward` is fair: a consumer takes what it is sent or is gone. The code has no
  deadline for it, and one that does neither stalls all others.

## Findings

What a sentence of the repository says and TLC finds violated. The first is a run of
PROJECT.json; the others are run by hand with the configuration named
(`tlc -config video_wrap.cfg MCVideoReceive` and so on), each with one property. (`video_turns.cfg`
and `data_turns.cfg`, also run by hand, are no findings: see Proofs.)

1. `stream_clients_half_open.cfg`, `RestartRecovers`: the restart of a stale stream
   "performs a full teardown and reconnect" (handler.go:973) only if no other channel of the device
   is registered; otherwise it stops and starts the stream over the same half-open connection.
2. `video_wrap.cfg`, `ProcessedInOrder`: `isSeqBefore` folds by 65535 instead of 65536, so
   65535 is not before 0; a duplicate there is queued, and a resync processes it a second time
   (client.go:838). The theorems say that this pair is all that can go wrong with the order.
3. `video_idle_gap.cfg`, `GapHeldOpen`: the resync threshold runs from the last packet in
   order; after a quiet second a gap is given up at once (client.go:29).
4. `session_warm_up.cfg`, `WarmUpRespected`: after a restart the camera has 8 seconds to
   wake, not 40 (session.go:24).
5. `session_warm_up.cfg` again, with `RetryAfterFailure` as its property: `MarkRestartFailed` does not make a session
   stale that never had a frame (session.go:157).
6. `session_rebind.cfg`, `ReplacedNotDropped`: a serve loop that polls while its session is being
   replaced ends (handler.go:312).
7. `lifecycle_raced_stop.cfg`, `WatchedKept`: a consumer that comes between the check of the
   count and the lock of `stopExpiredStream` loses its stream (handler.go:93).
8. `lifecycle_last_out.cfg`, `LastOneOutStops`: heartbeats refresh their session ID on ping
   frames, which neither the player nor the CLI sends; if such a heartbeat leaves last, the stream
   is never stopped (README.md:144).
9. `supervision_silence.cfg`, `StationKept`: a station that restarts without an END leaves a
   client that is connected for ever; nothing waits for its PONGs, and the supervisor
   sees no reason to reconnect (main.go:212, "station reboot ... NAT timeout").
10. `supervision_key.cfg`, `StationKept`: a login whose `GetDSKKeys` fails stores an empty
   key, and one that finds the supervisor's client in place drops its own; a station that is
   not in the local network is then never found again.
11. `login_retry.cfg`, `RetryAtLogin`: after an attempt that failed without a captcha the page
   waits for a challenge and offers nothing to retry with (main.go:121).
12. `login_session.cfg`, `SessionMaintained`: nothing logs in again when the token expires
   (README.md:112, "The server maintains the session on its own after that").
13. `relay_read_error.cfg`, `PumpRuns`: a failed read of the response ends the pump like a
   failed write, and `doStreamServe` goes on serving nothing (main.go:269-272 of the CLI).
14. `session_late_key.cfg`, `NeverMidGOP`: a late keyframe of a closed client lands in the buffer
   after `ClearBuffer`, and the consumer is given the delta frames of the next feed behind it
   (session.go:314, "clients never receive undecodable mid-GOP data from a fresh encoder session").
15. `connection_close_first.cfg`, `EveryCloseEndsLoops`: a client that is closed before it is
   connected starts its loops, and nobody ends them. `ReconnectMain` can do so to a client that
   `ConnectWithAPI` has published and not yet connected (station.go:72-75); no sentence speaks of it.
16. `relay_broken_pipe.cfg`, `BrokenPipeReturned`: where standard output is a pipe that nobody reads
   any more, the write does not fail but kills the process by SIGPIPE, and no stop request is sent
   (main.go:349 of the CLI, "out is broken (downstream pipe gone)").

`StreamClients` also defines `ChannelsHaveSessions`, which no run checks: it fails when a start
command fails, because the channel is registered before. The next start then finds it already
streaming, and the session is fed only after it became stale and was restarted.
Three more hazards are outside the properties: `StartStreamHandler` looks a
session up after it released the lock, and a stop in between leaves it with nil
(handler.go:797); `manager.go:68` reads two fields without the session's mutex; and an invalid video
header in the middle of a frame leaves that frame open (client.go:969).

## Proofs

| Module | Theorem | Says |
|---|---|---|
| `VideoReceive_proofs` | `IsSeqBeforeOnRing` | `isSeqBefore` is the order of the ring on pairs within half of it, but for one pair |
| | `TypeCorrect`, `QueueStaysBounded` | `TypeOK`, `QueueBounded` |
| | `QueueStaysAheadOnRing`, `InOrderOnRing`, `NothingQueuedLostOnRing` | `QueuedIsAhead`, `ProcessedInOrder`, `QueuedNotLost`, if no step compares the ends of the ring |
| | `FramesAreWholeOnRing`, `ReceiverImplementsDeliveryOnRing` | `FrameIntegrity`, refinement of `InOrderDelivery`, on the same condition |
| | `ComparedEndsQueueStale` | what a step does that compares the ends |
| | `NoWrapNeverComparesEnds`, and with it `QueueStaysAhead`, `InOrder`, `NothingQueuedLost`, `FramesAreWhole`, `ReceiverImplementsDelivery` | a stream that does not wrap meets the condition; the five properties without it |
| `StreamSession_proofs` | `TypeCorrect`, `BufferStaysConsistent`, `TimestampsIncrease` | `TypeOK`, `BufferConsistent`, `PTSIncreasing` |
| | `ConsumerTimelineIncreases`, `ConsumerCanDecode` | `TimelineIncreasing`, `Decodable` |
| | `WakingCameraKept` | `WakingKept` |
| `StreamLifecycle_proofs` | `TypeCorrect`, `CountIsRight`, `FeedNeverOrphaned` | `TypeOK`, `WatchersCounted`, `FeedHasSession` |
| `Connection_proofs` | `TypeCorrect`, `PeerHasAnswered`, `KeyFirst`, `PeerStays`, `ClientKeepsPromise` | `TypeOK`, `PeerAnswered`, `KeyBeforeReady`, `PeerFixed`, refinement of `P2PClient` |
| `DataChannel_proofs` | `NearPartsCompare` | the comparison of `sortMessageParts` is the order of packets that are near each other, wherever on the ring |
| | `PacketsTakenInOrder` | `TakenInOrder`, if every packet comes in time |
| | `TypeCorrectOnRing`, `MessagesAreWholeOnRing`, `NothingIsLostOnRing` | `TypeOK`, `MessagesWhole`, `NothingLost`, if also the parts of a message compare |
| | `FewPacketsSuffice`, and with it `TypeCorrect`, `MessagesAreWhole`, `NothingIsLost` | the packets of a short stream are taken in order and compare, however late they come; the three properties without the conditions |
| `StationSupervision_proofs` | `TypeCorrect`, `LeaksAreBounded` | `TypeOK`, `LeaksBounded` |
| `StreamClients_proofs` | `TypeCorrect`, `MapsAgree` | `TypeOK`, `ClientHasChannel` |
| `Relay_proofs` | `TypeCorrect`, `StopIsSent`, `RelayImplementsBroadcast` | `TypeOK`, `StopBeforeExit`, refinement of `Broadcast` |

They hold for every value of the constants under the modules' assumptions, which say of
what kind each constant is, that names differ, and that consumers and logins are
finitely many. Five hypotheses come on top:

* `[][EndsNotCompared]_vars`: no step asks `isSeqBefore` about the last sequence number and 0,
  the one pair it gets wrong. Then the receiver is right on any number of turns of the ring. A
  step asks when the packet numbered 65535 is the one processed last and comes again, or when a
  resync scans a queue that holds both numbers. `ComparedEndsQueueStale` proves of the first that
  the packet is queued as if it were ahead, and `video_wrap` shows what comes of it. The condition
  is on what the network delivers when; it holds of every stream that ends before the numbers
  start again (`NoWrap`), and of every stream of which neither happens. Run by hand, `video_turns.cfg`
  checks the five properties on a stream that goes round the ring one and a half times.
* `ValidSizes`: every header declares a size between 1 and the maximum. The two theorems of
  whole frames assume it. An invalid header is dropped by the code without closing the frame that
  is open, and the packets after it go to that frame.
* `MaxLate < badFrameRestartThreshold`, for `WakingCameraKept`: as many invalid frames as
  cause a restart, all delivered by the closed client, would tear the next camera down while
  it wakes. The code has a threshold of 60 and no bound of its own on late frames but that of the
  packets a client holds, of which each would have to end a frame; in that extreme, 60 late and
  invalid frames, the theorem says nothing. `ConsumerCanDecode` has no such hypothesis.
* `[][InTime]_vars`, for the data channel: a packet arrives at most half of the ring before or
  after the one that is expected, and the last number does not come again when 0 is expected,
  the pair that `isSeqBefore` gets wrong. Otherwise the queue takes an old packet for one ahead,
  and the parser is given it a turn of the ring later.
* `[][PartsCompare]_vars`, for the data channel: when a packet is taken, `sortMessageParts` would
  put every part of the message that is read before it. It takes numbers for wrapped when they
  differ by more than 65000. So the parts compare when they are of at most 65001 packets that do not
  wrap, or of at most 536 wherever they are (`NearPartsCompare`); a longer message that wraps is
  joined in the wrong order, as 535 is put before 65535. The bound is on one message and not on the
  stream. Run by hand, `data_turns.cfg` checks the three properties, and that packets are taken
  in order, on a stream that goes round a ring of four numbers one and a half times; without
  `InTime`, TLC finds messages mixed there, and without `PartsCompare` parts that have no order.
* `FewPackets`, instead of these two: the whole stream has fewer packets than there are numbers and
  no more than `sortMessageParts` can order, 65001 of a stream that does not wrap, or 536 of one
  that does. Then nothing is assumed of when packets come. `FewPacketsSuffice` proves what is left
  of the two hypotheses.

*Receiver.* `QueuedIsAhead` alone is not inductive. The invariant relates numbers to
positions: once initialized, `expected` is the number of packet `high + 1`, or the
`pc` is about to find out; every queued packet sits under its own number and beyond
`high`; and every packet on the wire has been sent. A number is a remainder, and no solver here
knows what happens to it when the number it is of grows: `RemainderOfSum` derives that from
the division. Packets at most half of the ring apart then precede each other as their numbers do
(`LaterPrecedes`), whatever the turn they are on, and with `IsSeqBeforeOnRing` the comparison is
the order of the stream, but for the two ends (`IsSeqBeforeIsEarlier`). For whole
frames it adds that a frame under reassembly with bytes to read is an unbroken run of
packets, from a header, ending at `high` if its channel is the last one, and that
the frames handed on end before it begins. That run is the next element of
`out`, which gives the refinement.

*Queue.* The bound follows from types alone, since a queue is finite and a resync takes
one packet out, whichever it chooses. That nothing is lost needs more: the scan must
end at a minimum. The queued packets lie within half of the ring, where `isSeqBefore` is the
order of the stream (`BeyondIsOrdered`), so the one that was sent first is a minimum and the
purge finds nothing before it; and a key is never taken by another packet.

*Session.* `SessionInv` says of the buffer that it is a window of consecutive IDs that
ends with `nextFrameID`, that the key position is the last keyframe's, that the
timestamps increase and none exceeds `lastPTS`, and that `lastPTS` is the
last camera timestamp plus the offset. The step that takes work is `AppendFrame`:
the two trims keep a suffix, for which lemmas give positions and keyframes.

*Session's types.* One of them takes a proof: `TypeOK` says of the bound session that
it is none or one that was made, and of the keyframe that it is a position of the buffer.
`Clocks`, `Flags` and `Controls` are the rest, by action.

*Consumer.* What a consumer gets is a batch that the code's loop cuts off the buffer and
remaps frame by frame: the model's `RemapBatch` is a recursive function, and its properties
are an induction. `InductiveSet` derives one from the well-foundedness of the numbers: a set that
holds 0, and with each number of an interval the next, holds the interval. With it,
`FramesSinceIs` says that a batch is a run of the buffer that begins after the frame read last
or, if that is gone, at the last keyframe, and `RemapBatchIncreases` that the timestamps
written increase and that the remapper ends at the last of them. `ConsumerInv` ties that
timestamp to the consumer's, and so the next batch goes on above it, whatever the camera's
clock did. `Decodable` needs where the reader stands: `Position` says that the frame it got
last belongs to the bound session and, if it is still in the buffer, is the one there;
`OneEncoder` that all frames of the buffer are of the running feed or came late, so that
none of an earlier feed is left when a feed begins. Frames leave the buffer only at its front, which makes a
hole visible to the reader: the frame it got last is gone with the ones it missed. Late frames make no hole.

*Waking camera.* `WarmUpInv` says that before the feed's first valid frame the session
has not waited longer than the feed has run, and that the bad frames counted since the feed
began and those that may still come late are together at most `MaxLate`.

*Lifecycle.* The count is that of the present consumers, which needs one fact about
cardinality per `Join`, `Watch` and `Leave`; the timer in the map is pending or fired,
and whoever makes the count positive takes it out. For the feed, the invariant says
that a restart which holds the lock has a session: every stop of a session needs
the lock, so none comes between the two halves of a restart. The types add the numbers
of sessions: the last one made is the one there is, and whoever remembers one remembers
one that was made (`Memories`).

*Connection.* `KeyBeforeReady` is not inductive: that the one who signals has a
key and was connected is a fact about the message in its hand. `ConnectionInv` adds where
messages come from: what is asked of the station is asked at one of its addresses,
`readLoop` holds an answer to something asked, and CMD_GATEWAYINFO is asked only by a
client that was connected, so its answer comes later. The refinement
follows step by step; only a first CAM_ID, `SignalEncryptionReady`, an END of the peer
and `Close` change what the abstract client shows.

*Data channel.* Both properties speak of what was handed on, and neither says where the
parser is. `ChannelInv` does: there is a byte `at` of the stream that it has come to, and what it
still holds, in `leftover` or in `data`, is everything from there to the end of packet `high`
(`Stands`). A message it reads has given `bytesRead` bytes up to `at`, and its parts are these
bytes, cut at offsets that follow the order of the packets (`Pieces`); what was handed on ends
before `at`; and if the first packet was heard, all that ends before `at` was handed on and `at`
is the end of a message or inside the one that is read (`Complete`). One lemma, `ConsumeKeeps`,
moves `at` over the bytes that a turn gives to a message. Headers are found where a message
begins and nowhere else (`FirstPartIs`, `NoHeaderInside`), and so a client that stands well never
throws bytes away. `JoinedParts` is about the operators: of a set of packets that compare as they
were sent (`GivenBy`) the numbers differ, a sorting exists, and the fold that joins the sorted parts
gives back the bytes. The set is the packets that gave the message a part, so that nothing is asked
of the numbers of others. `PartsCompare` says of each packet that it may join the set.

*Packets in order.* `expected` is the number of packet `high + 1`, but on a ring other packets have it
too. `QueueAhead` says why none of these is taken: nothing is queued before the channel is
initialized, every queued packet is `high + 1` or up to half of the ring beyond it, and when the
client waits for a packet, beyond it. A late packet precedes `expected` (`LateIsBefore`), so that
the purge takes it out as soon as it is queued; what is taken from the queue is within half of the
ring and has the number of `high + 1`, and so is that packet. In a stream of few packets it is the
packet because no other has its number (`ExpectedIsNext`), late or not.

*Supervision.* `LeaksBounded` says how many clients are lost, not why no more are.
`Account` says why: a client is lost when `ConnectWithAPI` clears the station's place
without a look at who is in it, and each login can do so once. `Owing` are the logins that
have not ended, and the supervisor while another client is where its own was. The lost
clients and those who owe together never exceed the logins: each step loses nothing, or takes
the one who loses out of `Owing`, or hands the debt of a login to the supervisor
(`AccountKept`). A client opened after it was closed is no exception: only a login's can be, since it is the supervisor who
closes it, and that login owes until it has ended. The supervisor calls without end and still adds nothing: only a login can
displace it.

*Stream clients.* The maps are read and written in different steps, with the mutex free
in between. `CallKnows` says that what a call has found out stays true: the device's lock lets
one call at a time change them.

*Relay.* `Indexed` says that the mutex keeps the indices of a write valid: what was found
broken is still there, and its handler waits to remove it, so that dropping from the
last to the first drops these. `Registered` says whose pipe is among the writers, and
`StopsFirst` that whoever comes back from `hb.close` comes after its function, which is what
`StopIsSent` needs: a process ends by itself only behind that call. Nothing is proved of one that is
killed. In the refinement a write owes the chunk to the pipes it has not come to; `DropBroken` takes no one
out who is owed anything.

Only model-checked: all liveness, which is out of the prover's reach because it rests on
fairness and so on ENABLED; and the types of `Login`, the only safety property of that module,
whose other one is a liveness property. The library's induction theorems take an operator as a
parameter, which the provers cannot instantiate. `InductiveSet` goes round that, where a recursive
function is the model's own and where a fold of the community modules is one.

## Plan

In order of what fails worst if it is wrong. Done: the path that video takes
(`SeqNumbers`, `VideoReceive`, `InOrderDelivery`, `StreamSession`, `StreamLifecycle`), the
connection below it (`P2PClient`, `Connection`, `DataChannel`), what keeps it up
(`StationSupervision`, `StreamClients`, `Login`), and the relay of the command line client;
and a theorem for each safety property, action property and refinement that a passing run
checks, but for the types of `Login`.

What is left to prove is what is assumed of the network. That a packet is at most half a turn of
the ring late is a guard of `Deliver` in `VideoReceive` (`InWindow`) and the hypothesis `InTime` in
`DataChannel`. Both would follow from a network that forgets within a bounded number of packets, and
the pair of the ends would still have to be excluded, since the code gets it wrong.
`PartsCompare` would follow from a bound on the packets of a message, which
`Cuttings` does not have because the station is free to send many small ones.

## Not modelled, and why

* Packet, frame and MPEG-TS formats, encryption and hashing are functions of bytes
  that unit tests cover. Configuration, device tables, logging and static files keep no
  state.
* `sendQueue` is never filled, so `executeSend`, its ACK timeouts and `handleAck` never
  change anything: `SendCommand` writes to the socket once, and a lost command is not repeated.
* The heartbeat of a client: it sends PINGs, answers PINGs, and reads no PONG. That nothing
  follows from its silence is in `StationSupervision`.
* `SetP2PTimeouts` stores configuration; `DisconnectAll` and `cleanup` close everything just
  before the process ends.
* `player.html` and `index.html`: what they send on their heartbeat is in `StreamLifecycle`.
* The status codes and texts of HTTP answers, the authentication middleware, and the
  listing calls of the cloud API, which only read.
