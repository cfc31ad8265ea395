---------------------------- MODULE StreamSession ----------------------------
(***************************************************************************)
(* One live stream session, the frames the P2P client appends to it, one   *)
(* consumer that polls it, and the restart of its upstream feed.           *)
(*                                                                         *)
(*   pkg/stream/session.go   the session and its methods, under its mutex  *)
(*   pkg/web/handler.go      serveStreamFrames (the polling loop and its   *)
(*                           ptsRemapper), restartStaleStream, and the     *)
(*                           replacement of a stale session by             *)
(*                           ensureStreamLocked                            *)
(*                                                                         *)
(* The camera is not part of the repository: it sleeps until commanded,    *)
(* takes a while to wake, sends frames of which only some are keyframes,   *)
(* restarts its clock with every encoder session, and may fall silent.     *)
(* Time is counted in ticks.  Codec detection and awaitKeyframe, which     *)
(* only a debug message reads, are left out.                               *)
(***************************************************************************)
EXTENDS Integers, Sequences, FiniteSets

LOCAL INSTANCE FiniteSetsExt

CONSTANTS
    maxFrames, maxBufferBytes,   \* the limits of the buffer
    StaleThreshold,              \* ticks without a frame of an established feed
    WarmUpStaleThreshold,        \* ticks without a first frame
    badFrameRestartThreshold,    \* consecutive invalid frames
    restartCooldown,             \* ticks between restart attempts
    checkInterval,               \* ticks between a consumer's restart checks
    maxPTSJumpMs,                \* largest forward step of the camera clock
    FrameInputs,                 \* what AppendFrame is called with
    Steps,                       \* frame durations, from the camera's frame rate
    WakeTime,                    \* ticks the camera needs to wake
    MaxLate,                     \* frames a closed client may still deliver
    MaxID, MaxEpoch, MaxSession  \* bounds: frames, feeds and sessions

ASSUME SessionAssumption ==
    /\ {maxFrames, maxBufferBytes, StaleThreshold, restartCooldown, checkInterval,
        badFrameRestartThreshold, maxPTSJumpMs, WakeTime, MaxLate, MaxID, MaxEpoch,
        MaxSession} \subseteq Nat
    /\ maxFrames > 0
    /\ WarmUpStaleThreshold \in Nat
    /\ StaleThreshold < WarmUpStaleThreshold
    /\ Steps \subseteq Nat \ {0}
    /\ FrameInputs \subseteq [startCode : BOOLEAN, key : BOOLEAN, bytes : Nat, raw : Nat]

VARIABLES
    \* StreamSession
    sid,             \* ID of the session there is, 0 for none
    streamIDCounter, \* the last ID given out
    buffer,          \* FrameBuffer and frameIDs, oldest frame first
    nextFrameID,     \* NextFrameID
    lastKeyFrameIdx, \* position of the last keyframe in buffer, 0 for the code's -1
    age,             \* ticks since LastUpdate
    everHadFrame, seenValidFrame, badFrames,
    sinceRestart,    \* ticks since lastRestartAt
    hasPTS, lastRawPTS, lastPTS, ptsOffset,
    \* the consumer's serve loop
    boundTo,         \* streamID
    lastFrameID,
    sinceCheck,      \* ticks since lastRestartCheck
    remapper,        \* ptsRemapper
    \* streamOpLock and who holds it or waits for it
    waiting,         \* restartStaleStream goroutines that wait for the lock
    holder,          \* "none", or what its holder is in the middle of
    \* the camera and the P2P client of the feed
    feed,            \* "off", "waking", "on" or "silent"
    epoch,           \* how many encoder sessions were started
    feedAge,         \* ticks since the feed was started
    late,            \* how many frames a closed client may still deliver
    \* history
    wire             \* the frames last written to the consumer and the one before

frames   == <<buffer, nextFrameID, lastKeyFrameIdx>>
session  == <<sid, streamIDCounter, frames, age, everHadFrame, seenValidFrame, badFrames,
              sinceRestart, hasPTS, lastRawPTS, lastPTS, ptsOffset>>
identity == <<sid, streamIDCounter>>
timing   == <<hasPTS, lastRawPTS, lastPTS, ptsOffset>>
consumer == <<boundTo, lastFrameID, sinceCheck, remapper, wire>>
locking  == <<waiting, holder>>
camera   == <<feed, epoch, feedAge, late>>
vars     == <<session, consumer, locking, camera>>

MaxWaiting == 2    \* bound on the goroutines waiting for the lock

-----------------------------------------------------------------------------
(* The session's methods.                                                  *)

IsStale == age > IF everHadFrame THEN StaleThreshold ELSE WarmUpStaleThreshold

NeedsRestart == IsStale \/ (seenValidFrame /\ badFrames >= badFrameRestartThreshold)

ShouldAttemptRestart == sinceRestart > restartCooldown

\* The position of the last keyframe of a buffer: recalcKeyFrameIdx.
LastKeyOf(b) ==
    LET keys == {i \in 1 .. Len(b) : b[i].key}
    IN  IF keys = {} THEN 0 ELSE CHOOSE i \in keys : \A j \in keys : j <= i

\* The positions from which on b is over the byte limit.
TooLong(b) == {k \in 1 .. Len(b) : MapThenSumSet(LAMBDA i : b[i].bytes, k .. Len(b)) > maxBufferBytes}

\* The newest frames of b that fit into the byte limit, then into the frame
\* limit.
FitBytes(b) == SubSeq(b, Cardinality(TooLong(b)) + 1, Len(b))

FitCount(b) == IF Len(b) > maxFrames THEN SubSeq(b, Len(b) - maxFrames + 1, Len(b)) ELSE b

\* Mutant: the position is not moved when frames in front of it go.
KeyNotMoved(key, b, t) == key

\* The keyframe position after b was trimmed to t, from the one before.
KeyAfterTrim(key, b, t) == IF Len(t) < Len(b) THEN LastKeyOf(t) ELSE key

\* AppendFrame's use of the buffer: frame f goes to its end, old ones make room.
Store(f) ==
    LET b == Append(buffer, f)
        t == FitBytes(b)
        u == FitCount(t)
        key == IF f.key THEN Len(b) ELSE lastKeyFrameIdx
    IN  /\ buffer' = u
        /\ lastKeyFrameIdx' = KeyAfterTrim(KeyAfterTrim(key, b, t), t, u)
        /\ nextFrameID' = f.id

\* Mutant: a timestamp that went back is not rebased.
RebasePTSJumpsOnly(raw, step) ==
    LET delta == raw - lastRawPTS
    IN  /\ hasPTS' = TRUE
        /\ lastRawPTS' = raw
        /\ IF ~hasPTS
           THEN lastPTS' = 1000 /\ ptsOffset' = 1000 - raw
           ELSE /\ ptsOffset' = IF delta > maxPTSJumpMs THEN lastPTS + step - raw ELSE ptsOffset
                /\ lastPTS' = raw + ptsOffset'

\* rebasePTS with a camera timestamp and the frame duration its rate implies.
RebasePTS(raw, step) ==
    LET delta == raw - lastRawPTS
    IN  /\ hasPTS' = TRUE
        /\ lastRawPTS' = raw
        /\ IF ~hasPTS
           THEN lastPTS' = 1000 /\ ptsOffset' = 1000 - raw
           ELSE /\ ptsOffset' = IF delta <= 0 \/ delta > maxPTSJumpMs
                                THEN lastPTS + step - raw
                                ELSE ptsOffset
                /\ lastPTS' = raw + ptsOffset'

\* AppendFrame with input in, sent by encoder session e, or delivered late by a
\* closed client, where e is 0.  A frame without a
\* start code is dropped once a frame with one was seen, an empty one always.
AppendFrame(in, e) ==
    /\ age' = 0
    /\ everHadFrame' = TRUE
    /\ IF seenValidFrame /\ ~in.startCode
       THEN /\ badFrames' = badFrames + 1
            /\ UNCHANGED <<frames, seenValidFrame, timing>>
       ELSE IF in.bytes = 0
       THEN UNCHANGED <<frames, seenValidFrame, badFrames, timing>>
       ELSE /\ badFrames' = 0
            /\ seenValidFrame' = (seenValidFrame \/ in.startCode)
            /\ \E step \in Steps : RebasePTS(in.raw, step)
            /\ Store([id |-> nextFrameID + 1, key |-> in.key, bytes |-> in.bytes,
                      pts |-> lastPTS', epoch |-> e])
    /\ UNCHANGED <<identity, sinceRestart>>

\* GetFramesSince: where to start reading, 0 for not at all.
StartIdx(since) ==
    LET next == Cardinality({i \in 1 .. Len(buffer) : buffer[i].id <= since}) + 1
    IN  IF lastKeyFrameIdx = 0 THEN 0
        ELSE IF since = 0 \/ next < lastKeyFrameIdx THEN lastKeyFrameIdx
        ELSE next

FramesSince(since) ==
    IF StartIdx(since) = 0 THEN <<>> ELSE SubSeq(buffer, StartIdx(since), Len(buffer))

NextSince(since) == IF StartIdx(since) = 0 THEN since ELSE nextFrameID

\* A session that nothing was sent to and nobody restarted.
EmptySession ==
    /\ buffer' = <<>>
    /\ nextFrameID' = 0
    /\ lastKeyFrameIdx' = 0
    /\ age' = 0
    /\ everHadFrame' = FALSE
    /\ seenValidFrame' = FALSE
    /\ badFrames' = 0
    /\ sinceRestart' = restartCooldown + 1
    /\ hasPTS' = FALSE
    /\ lastRawPTS' = 0
    /\ lastPTS' = 0
    /\ ptsOffset' = 0

\* Mutant: the ID is read before the counter goes up.
StartStreamOldID ==
    /\ streamIDCounter' = streamIDCounter + 1
    /\ sid' = streamIDCounter
    /\ EmptySession

\* StartStream, where there is no session.
StartStream ==
    /\ streamIDCounter' = streamIDCounter + 1
    /\ sid' = streamIDCounter'
    /\ EmptySession

\* StopStream.  Nobody finds the object any more; the variables say what the
\* next one will hold.
StopStream ==
    /\ sid' = 0
    /\ UNCHANGED streamIDCounter
    /\ EmptySession

-----------------------------------------------------------------------------
(* The consumer: serveStreamFrames.                                        *)

FreshRemapper == [base |-> 0, haveBase |-> FALSE, last |-> 0, haveLast |-> FALSE]

\* Mutant: no clamp.
RemapUnclamped(r, pts) ==
    LET base == IF r.haveBase THEN r.base ELSE pts
        out  == (IF pts < base THEN base ELSE pts) - base + 1000
    IN  [base |-> base, haveBase |-> TRUE, haveLast |-> TRUE, last |-> out]

\* ptsRemapper.Remap: the remapper after one timestamp; its last is the result.
Remap(r, pts) ==
    LET base == IF r.haveBase THEN r.base ELSE pts
        out  == (IF pts < base THEN base ELSE pts) - base + 1000
    IN  [base |-> base, haveBase |-> TRUE, haveLast |-> TRUE,
         last |-> IF r.haveLast /\ out <= r.last THEN r.last + 1 ELSE out]

\* The remapper after each frame of a batch, the first element before all.
RemapBatch(r, batch) ==
    LET after[k \in 0 .. Len(batch)] == IF k = 0 THEN r ELSE Remap(after[k - 1], batch[k].pts)
    IN  after

\* What the consumer receives of a batch.
Written(batch, after, id) ==
    [k \in 1 .. Len(batch) |-> [id |-> batch[k].id, key |-> batch[k].key, epoch |-> batch[k].epoch,
                                sid |-> id, pts |-> batch[k].pts, out |-> after[k].last]]

\* One turn of the loop: re-bind to a replaced session, have the feed restarted
\* if it needs it, write what is new.  It ends when there is no session.
Poll ==
    /\ boundTo # 0
    /\ sid # 0
    /\ LET rebind == sid # boundTo
           since  == IF rebind THEN 0 ELSE lastFrameID
           r      == IF rebind THEN [remapper EXCEPT !.haveBase = FALSE] ELSE remapper
           batch  == FramesSince(since)
           after  == RemapBatch(r, batch)
           check  == sinceCheck > checkInterval /\ NeedsRestart
       IN  /\ check => waiting < MaxWaiting
           /\ boundTo' = sid
           /\ sinceCheck' = IF check THEN 0 ELSE sinceCheck
           /\ waiting' = IF check THEN waiting + 1 ELSE waiting
           /\ lastFrameID' = NextSince(since)
           /\ remapper' = after[Len(batch)]
           /\ wire' = IF batch = <<>> THEN wire
                      ELSE (IF wire = <<>> THEN <<>> ELSE <<wire[Len(wire)]>>)
                           \o Written(batch, after, sid)
    /\ UNCHANGED <<session, holder, camera>>

PollFindsNone ==
    /\ boundTo # 0
    /\ sid = 0
    /\ boundTo' = 0
    /\ UNCHANGED <<session, lastFrameID, sinceCheck, remapper, wire, locking, camera>>

\* A consumer connects: its start finds a live session, and its loop begins.
Connect ==
    /\ boundTo = 0
    /\ holder = "none"
    /\ sid # 0
    /\ ~IsStale
    /\ boundTo' = sid
    /\ lastFrameID' = 0
    /\ sinceCheck' = checkInterval + 1
    /\ remapper' = FreshRemapper
    /\ wire' = <<>>
    /\ UNCHANGED <<session, locking, camera>>

-----------------------------------------------------------------------------
(* Restart and replacement, under streamOpLock.                            *)

\* station.StopLivestream: the P2P client is closed.  Close does not wait for
\* its readLoop, which may hold a packet that completes frames, its own and those
\* of the packets queued behind it.  The client closed before it has long ended.
StopLivestream ==
    /\ feed' = "off"
    /\ late' = IF feed = "off" THEN late ELSE MaxLate
    /\ UNCHANGED <<epoch, feedAge>>

\* Mutant: without ClearBuffer.
RestartKeepsBuffer ==
    /\ waiting > 0
    /\ holder = "none"
    /\ waiting' = waiting - 1
    /\ IF sid = 0 \/ ~NeedsRestart \/ ~ShouldAttemptRestart
       THEN UNCHANGED <<session, holder, camera>>
       ELSE /\ holder' = "restart"
            /\ sinceRestart' = 0
            /\ StopLivestream
            /\ badFrames' = 0
            /\ UNCHANGED <<identity, frames, age, everHadFrame, seenValidFrame, timing>>
    /\ UNCHANGED consumer

\* Mutant: MarkRestartAttempt before the cooldown is looked at.
RestartMarksFirst ==
    /\ waiting > 0
    /\ holder = "none"
    /\ waiting' = waiting - 1
    /\ IF sid = 0 \/ ~NeedsRestart
       THEN UNCHANGED <<session, holder, camera>>
       ELSE IF ~ShouldAttemptRestart
       THEN /\ sinceRestart' = 0
            /\ UNCHANGED <<identity, frames, age, everHadFrame, seenValidFrame, badFrames, timing,
                           holder, camera>>
       ELSE /\ holder' = "restart"
            /\ sinceRestart' = 0
            /\ StopLivestream
            /\ badFrames' = 0
            /\ buffer' = <<>>
            /\ lastKeyFrameIdx' = 0
            /\ UNCHANGED <<identity, nextFrameID, age, everHadFrame, seenValidFrame, timing>>
    /\ UNCHANGED consumer

\* restartStaleStream gets the lock: it has nothing to do any more, or it tears
\* the feed down and goes on to StartLivestream.
RestartBegin ==
    /\ waiting > 0
    /\ holder = "none"
    /\ waiting' = waiting - 1
    /\ IF sid = 0 \/ ~NeedsRestart \/ ~ShouldAttemptRestart
       THEN UNCHANGED <<session, holder, camera>>
       ELSE /\ holder' = "restart"
            /\ sinceRestart' = 0
            /\ StopLivestream
            /\ badFrames' = 0
            /\ buffer' = <<>>
            /\ lastKeyFrameIdx' = 0
            /\ UNCHANGED <<identity, nextFrameID, age, everHadFrame, seenValidFrame, timing>>
    /\ UNCHANGED consumer

\* A start finds no session, or a stale one: ensureStreamLocked stops it, station
\* first, and then makes a new one.
EnsureBegin ==
    /\ holder = "none"
    /\ sid = 0 \/ IsStale
    /\ streamIDCounter < MaxSession
    /\ holder' = "ensure"
    /\ IF sid = 0 THEN UNCHANGED <<session, camera>> ELSE StopLivestream /\ StopStream
    /\ UNCHANGED <<consumer, waiting>>

EnsureStart ==
    /\ holder = "ensure"
    /\ sid = 0
    /\ StartStream
    /\ UNCHANGED <<consumer, locking, camera>>

\* StartLivestream got through to the station, which starts an encoder session.
StationStarts ==
    /\ holder # "none"
    /\ sid # 0
    /\ feed = "off"
    /\ epoch < MaxEpoch
    /\ feed' = "waking"
    /\ epoch' = epoch + 1
    /\ feedAge' = 0
    /\ UNCHANGED <<session, consumer, locking, late>>

\* Mutant: without ResetLastUpdate.
StartDoneNoReset ==
    /\ holder # "none"
    /\ feed # "off"
    /\ holder' = "none"
    /\ UNCHANGED <<session, consumer, waiting, camera>>

\* StartLivestream returned: ResetLastUpdate.
StartDone ==
    /\ holder # "none"
    /\ feed # "off"
    /\ holder' = "none"
    /\ age' = 0
    /\ UNCHANGED <<identity, frames, everHadFrame, seenValidFrame,
                   badFrames, sinceRestart, timing, consumer, waiting, camera>>

\* StartLivestream failed: MarkRestartFailed after a restart, StopStream of a new
\* session.
StartFails ==
    /\ holder # "none"
    /\ sid # 0
    /\ feed = "off"
    /\ holder' = "none"
    /\ IF holder = "restart"
       THEN /\ age' = StaleThreshold + 1
            /\ UNCHANGED <<identity, frames, everHadFrame, seenValidFrame, badFrames, sinceRestart, timing>>
       ELSE StopStream
    /\ UNCHANGED <<consumer, waiting, camera>>

-----------------------------------------------------------------------------
(* The camera and the clock.                                               *)

\* onVideoFrame: a frame of encoder session e for the session there is.
OnVideoFrame(in, e) ==
    /\ IF sid = 0 THEN UNCHANGED session ELSE AppendFrame(in, e)
    /\ nextFrameID < MaxID
    /\ badFrames <= badFrameRestartThreshold
    /\ UNCHANGED <<consumer, locking>>

FeedFrame ==
    /\ feed = "on"
    /\ \E in \in FrameInputs : OnVideoFrame(in, epoch)
    /\ UNCHANGED camera

\* The callback of the closed client finds whatever session there is by its key.
LateFrame ==
    /\ late > 0
    /\ \E in \in FrameInputs : OnVideoFrame(in, 0)
    /\ late' = late - 1
    /\ UNCHANGED <<feed, epoch, feedAge>>

Wake ==
    /\ feed = "waking"
    /\ feedAge >= WakeTime
    /\ feed' = "on"
    /\ UNCHANGED <<session, consumer, locking, epoch, feedAge, late>>

FallSilent ==
    /\ feed \in {"waking", "on"}
    /\ feed' = "silent"
    /\ UNCHANGED <<session, consumer, locking, epoch, feedAge, late>>

\* A clock that stops at a value beyond which nothing compares differently.
Older(t, limit) == IF t <= limit THEN t + 1 ELSE t

MaxAge == WarmUpStaleThreshold + WakeTime

Tick ==
    /\ age' = Older(age, WarmUpStaleThreshold)
    /\ sinceRestart' = Older(sinceRestart, restartCooldown)
    /\ sinceCheck' = Older(sinceCheck, checkInterval)
    /\ feedAge' = Older(feedAge, MaxAge)
    /\ UNCHANGED <<identity, frames, everHadFrame, seenValidFrame, badFrames, timing, boundTo, lastFrameID, remapper, wire, locking,
                   feed, epoch, late>>

\* The first consumer's start has just succeeded and it is about to poll.
Init ==
    /\ sid = 1 /\ streamIDCounter = 1
    /\ buffer = <<>>
    /\ nextFrameID = 0
    /\ lastKeyFrameIdx = 0
    /\ age = 0
    /\ everHadFrame = FALSE
    /\ seenValidFrame = FALSE
    /\ badFrames = 0
    /\ sinceRestart = restartCooldown + 1
    /\ hasPTS = FALSE /\ lastRawPTS = 0 /\ lastPTS = 0 /\ ptsOffset = 0
    /\ boundTo = 1
    /\ lastFrameID = 0
    /\ sinceCheck = checkInterval + 1
    /\ remapper = FreshRemapper
    /\ wire = <<>>
    /\ waiting = 0
    /\ holder = "none"
    /\ feed = "waking" /\ epoch = 1 /\ feedAge = 0 /\ late = 0

Next ==
    \/ Poll \/ PollFindsNone \/ Connect
    \/ RestartBegin \/ EnsureBegin \/ EnsureStart
    \/ StationStarts \/ StartDone \/ StartFails
    \/ FeedFrame \/ LateFrame \/ Wake \/ FallSilent
    \/ Tick

Spec == Init /\ [][Next]_vars

\* The loop has a ticker, a goroutine that waits for the lock gets it, every call
\* to the station ends with success or with a timeout, and time passes.
Fairness ==
    /\ WF_vars(Poll) /\ WF_vars(PollFindsNone)
    /\ WF_vars(RestartBegin) /\ WF_vars(EnsureStart)
    /\ WF_vars(StartDone) /\ WF_vars(StartFails)
    /\ WF_vars(Tick)

FairSpec == Spec /\ Fairness

-----------------------------------------------------------------------------
(* Properties.                                                             *)

Frame == [id : Nat, key : BOOLEAN, bytes : Nat, pts : Int, epoch : Nat]

TypeOK ==
    /\ streamIDCounter \in Nat
    /\ sid \in {0, streamIDCounter}
    /\ buffer \in Seq(Frame)
    /\ nextFrameID \in Nat
    /\ lastKeyFrameIdx \in Nat
    /\ age \in Nat
    /\ {everHadFrame, seenValidFrame, hasPTS} \subseteq BOOLEAN
    /\ {badFrames, sinceRestart, sinceCheck, feedAge, epoch, late, lastFrameID, boundTo} \subseteq Nat
    /\ {lastRawPTS, lastPTS, ptsOffset} \subseteq Int
    /\ remapper \in [base : Int, haveBase : BOOLEAN, last : Int, haveLast : BOOLEAN]
    /\ waiting \in 0 .. MaxWaiting
    /\ holder \in {"none", "restart", "ensure"}
    /\ feed \in {"off", "waking", "on", "silent"}

\* The buffer is a window of consecutive frames that ends with the newest, and
\* lastKeyFrameIdx is the position of its last keyframe, whatever was trimmed
\* from its front and whenever it was cleared (AppendFrame, recalcKeyFrameIdx).
BufferConsistent ==
    /\ Len(buffer) <= maxFrames
    /\ \A i \in 1 .. Len(buffer) : buffer[i].id = nextFrameID - Len(buffer) + i
    /\ lastKeyFrameIdx = LastKeyOf(buffer)

\* The timestamps of the buffer increase strictly, from frame to frame and over
\* every restart of the camera's clock, and the offset carries the last camera
\* timestamp to the last one given out: what rebasePTS is for.
PTSIncreasing ==
    /\ hasPTS => lastPTS = lastRawPTS + ptsOffset
    /\ \A i \in 1 .. Len(buffer) : /\ hasPTS
                                   /\ buffer[i].pts <= lastPTS
                                   /\ \A j \in 1 .. i - 1 : buffer[j].pts < buffer[i].pts

\* What a consumer receives can be decoded: each frame is a keyframe or follows
\* directly the frame received before it, from the same encoder session, also
\* across trims, restarts and a replaced session.  Only a frame that a closed
\* client delivers late, and the one after it, may be of different sessions.
Follows(f, g) == f.id = g.id + 1 /\ f.sid = g.sid

Decodable ==
    /\ wire # <<>> /\ ~wire[1].key => Len(wire) > 1
    /\ \A k \in 2 .. Len(wire) :
          \/ wire[k].key
          \/ /\ Follows(wire[k], wire[k - 1])
             /\ 0 \in {wire[k].epoch, wire[k - 1].epoch} \/ wire[k].epoch = wire[k - 1].epoch

\* GetFramesSince promises that "clients never receive undecodable mid-GOP data
\* from a fresh encoder session", late frames or not.
NeverMidGOP ==
    \A k \in 2 .. Len(wire) : wire[k].key \/ wire[k].epoch = wire[k - 1].epoch

\* The timestamps a consumer receives increase strictly, also when the session
\* it reads is replaced by one whose clock starts again.
TimelineIncreasing == \A k \in 2 .. Len(wire) : wire[k - 1].out < wire[k].out

\* While a session is replaced its consumer stays: "If the session object is
\* replaced mid-connection (player-driven restart), the loop re-binds to the new
\* session instead of serving a dead one".
ReplacedNotDropped == [][holder = "ensure" => boundTo' # 0 \/ boundTo = 0]_vars

\* A camera that is still waking is not torn down before its session calls it
\* dead, counted from the moment it was started: the time a start took, the
\* restarts that queued up meanwhile and a failed one before it take nothing away
\* ("Resetting earlier makes the monitor kill the stream mid-warm-up in a loop").
WakingKept ==
    [][feed = "waking" /\ feed' = "off"
         => feedAge > IF everHadFrame THEN StaleThreshold ELSE WarmUpStaleThreshold]_vars

\* The warm-up time is "how long a stream may take to produce its FIRST frame",
\* after any start.
WarmUpRespected ==
    [][feed = "waking" /\ feed' = "off" => feedAge > WarmUpStaleThreshold]_vars

\* MarkRestartFailed "forces the session back into the needs-restart state".
RetryAfterFailure ==
    [][holder = "restart" /\ holder' = "none" /\ feed = "off" => NeedsRestart']_vars

\* A feed that died while a consumer watches it is stopped and started again.
DeadFeedRestarted ==
    boundTo # 0 /\ feed \in {"off", "silent"} ~> boundTo = 0 \/ holder # "none"
=============================================================================
