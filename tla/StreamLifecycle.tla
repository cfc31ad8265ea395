--------------------------- MODULE StreamLifecycle ---------------------------
(***************************************************************************)
(* Who keeps the livestream of one device channel running, and who stops   *)
(* it: the consumers, the watcherSet that counts them, its grace timers,   *)
(* the per-device streamOpLock and the session map (pkg/web/handler.go,    *)
(* pkg/stream/manager.go).                                                 *)
(*                                                                         *)
(* A client is a request of StreamHandler or RawStreamHandler, a heartbeat *)
(* one of StreamWebSocketHandler.  A holder of streamOpLock keeps it while *)
(* StartLivestream blocks, and the moment between the stop of a session    *)
(* and the start of its replacement is a state of its own, because serve   *)
(* loops look without the lock.                                            *)
(* What a session holds and when it is stale is StreamSession's subject.   *)
(***************************************************************************)
EXTENDS Integers, FiniteSets

CONSTANTS
    Clients, Heartbeats,   \* the consumers, over HTTP and over WebSocket
    Grace,                 \* streamGracePeriod, in ticks
    Timers,                \* bound: timers that exist at the same time
    MaxID                  \* bound: sessions

Consumers == Clients \cup Heartbeats

ASSUME LifecycleAssumption ==
    /\ Clients \cap Heartbeats = {}
    /\ Clients \cap {"none", "api", "restart"} = {}
    /\ "none" \notin Timers
    /\ IsFiniteSet(Consumers)
    /\ Grace \in Nat
    /\ MaxID \in Nat

VARIABLES
    phase,      \* where each consumer's request is
    streamID,   \* the session each of them believes it watches, 0 for none
    counts,     \* watcherSet.counts of the channel, 0 for no entry
    timer,      \* watcherSet.timers of the channel, NoTimer for no entry
    timers,     \* every time.AfterFunc there is
    sid,        \* ID of the session in activeStreams, 0 for none
    streamIDCounter,
    stale,      \* whether the session is stale
    holder,     \* who holds streamOpLock while StartLivestream blocks
    feed,       \* whether the station streams
    lastLeft    \* history: streamID of the last consumer that left this
                \* session alone, Nobody while none did

watchers == <<counts, timer, timers, lastLeft>>
sessions == <<sid, streamIDCounter, stale>>
vars     == <<phase, streamID, watchers, sessions, holder, feed>>

NoTimer == "none"
Nobody  == -1
Free    == [state |-> "free", id |-> 0, age |-> 0]

-----------------------------------------------------------------------------
(* watcherSet.                                                             *)

\* Mutant: the entry of a stopped timer stays.
AddKeepsEntry ==
    /\ counts' = counts + 1
    /\ timers' = IF timer # NoTimer /\ timers[timer].state = "pending"
                 THEN [timers EXCEPT ![timer] = Free]
                 ELSE timers
    /\ UNCHANGED <<timer, lastLeft>>

\* add: a pending timer is stopped; one that has fired goes on.
Add ==
    /\ counts' = counts + 1
    /\ timer' = NoTimer
    /\ timers' = IF timer # NoTimer /\ timers[timer].state = "pending"
                 THEN [timers EXCEPT ![timer] = Free]
                 ELSE timers
    /\ UNCHANGED lastLeft

\* Which of the timers that do not exist is made next does not matter.
NewTimer == CHOOSE t \in Timers : timers[t] = Free

\* Mutant: the entry of the last one is not deleted.
RemoveKeepsCount(id) ==
    IF counts = 0 THEN UNCHANGED watchers
    ELSE IF counts > 1 THEN counts' = counts - 1 /\ UNCHANGED <<timer, timers, lastLeft>>
    ELSE /\ UNCHANGED counts
         /\ lastLeft' = id
         /\ \E t \in Timers : timers[t] = Free
         /\ timers' = [timers EXCEPT ![NewTimer] = [state |-> "pending", id |-> id, age |-> 0]]
         /\ timer' = NewTimer

\* Mutant: an armed timer with no session to stop.
RemoveForgetsID(id) ==
    IF counts = 0 THEN UNCHANGED watchers
    ELSE IF counts > 1 THEN counts' = counts - 1 /\ UNCHANGED <<timer, timers, lastLeft>>
    ELSE /\ counts' = 0
         /\ lastLeft' = id
         /\ \E t \in Timers : timers[t] = Free
         /\ timers' = [timers EXCEPT ![NewTimer] = [state |-> "pending", id |-> 0, age |-> 0]]
         /\ timer' = NewTimer

\* remove, with the session its expire callback is bound to: the last one out
\* arms a timer.
Remove(id) ==
    IF counts = 0 THEN UNCHANGED watchers
    ELSE IF counts > 1 THEN counts' = counts - 1 /\ UNCHANGED <<timer, timers, lastLeft>>
    ELSE /\ counts' = 0
         /\ lastLeft' = id
         /\ \E t \in Timers : timers[t] = Free
         /\ timers' = [timers EXCEPT ![NewTimer] = [state |-> "pending", id |-> id, age |-> 0]]
         /\ timer' = NewTimer

\* The grace period is over and the callback's goroutine exists.
TimerFires(t) ==
    /\ timers[t].state = "pending"
    /\ timers[t].age >= Grace
    /\ timers' = [timers EXCEPT ![t].state = "fired"]
    /\ UNCHANGED <<phase, streamID, counts, timer, lastLeft, sessions, holder, feed>>

\* The callback under the set's mutex: whoever is in the map goes, and the
\* callback goes on to expire if nobody is counted.
TimerChecks(t) ==
    /\ timers[t].state = "fired"
    /\ timer' = NoTimer
    /\ timers' = IF counts = 0 THEN [timers EXCEPT ![t].state = "expiring"]
                 ELSE [timers EXCEPT ![t] = Free]
    /\ UNCHANGED <<phase, streamID, counts, lastLeft, sessions, holder, feed>>

\* Mutant: the session goes, the station streams on.
ExpireKeepsFeed(t) ==
    /\ timers[t].state = "expiring"
    /\ holder = "none"
    /\ timers' = [timers EXCEPT ![t] = Free]
    /\ sid' = IF sid = timers[t].id THEN 0 ELSE sid
    /\ UNCHANGED <<phase, streamID, counts, timer, lastLeft, streamIDCounter, stale, holder, feed>>

\* stopExpiredStream, once it has streamOpLock.
Expire(t) ==
    /\ timers[t].state = "expiring"
    /\ holder = "none"
    /\ timers' = [timers EXCEPT ![t] = Free]
    /\ IF sid # 0 /\ sid = timers[t].id
       THEN sid' = 0 /\ stale' = FALSE /\ feed' = FALSE
       ELSE UNCHANGED <<sid, stale, feed>>
    /\ UNCHANGED <<phase, streamID, counts, timer, lastLeft, streamIDCounter, holder>>

-----------------------------------------------------------------------------
(* Starts, restarts and stops, under streamOpLock.                         *)

Live == sid # 0 /\ ~stale

\* ensureStreamLocked without a live session to reuse: a stale one is stopped.
EnsureBegin(who) ==
    /\ holder = "none"
    /\ ~Live
    /\ streamIDCounter < MaxID
    /\ holder' = who
    /\ sid' = 0
    /\ stale' = FALSE
    /\ feed' = IF sid = 0 THEN feed ELSE FALSE
    /\ UNCHANGED <<streamIDCounter, watchers>>

\* Then a new one is made, and StartLivestream called.
EnsureStart ==
    /\ holder \in Clients \cup {"api"}
    /\ sid = 0
    /\ streamIDCounter' = streamIDCounter + 1
    /\ sid' = streamIDCounter'
    /\ lastLeft' = Nobody
    /\ UNCHANGED <<phase, streamID, counts, timer, timers, stale, holder, feed>>

\* StartLivestream came through, or failed and StopStream follows.
EnsureEnds(who, ok) ==
    /\ holder = who
    /\ sid # 0
    /\ holder' = "none"
    /\ stale' = FALSE
    /\ feed' = ok
    /\ sid' = IF ok THEN sid ELSE 0
    /\ UNCHANGED <<streamIDCounter, watchers>>

\* StartStreamHandler: a start without a consumer.
ApiStart ==
    /\ EnsureBegin("api")
    /\ UNCHANGED <<phase, streamID>>

ApiStarted(ok) ==
    /\ EnsureEnds("api", ok)
    /\ UNCHANGED <<phase, streamID>>

\* StopStreamHandler, whoever watches.
ApiStop ==
    /\ holder = "none"
    /\ sid # 0
    /\ sid' = 0
    /\ stale' = FALSE
    /\ feed' = FALSE
    /\ UNCHANGED <<phase, streamID, watchers, streamIDCounter, holder>>

\* restartStaleStream keeps the session, which is stale or has sent too many
\* invalid frames.
RestartBegin ==
    /\ holder = "none"
    /\ sid # 0
    /\ holder' = "restart"
    /\ feed' = FALSE
    /\ UNCHANGED <<phase, streamID, watchers, sessions>>

\* A failure leaves it stale if it ever had a frame.
RestartEnds(ok) ==
    /\ holder = "restart"
    /\ holder' = "none"
    /\ feed' = ok
    /\ stale' \in IF ok THEN {FALSE} ELSE BOOLEAN
    /\ UNCHANGED <<phase, streamID, watchers, sid, streamIDCounter>>

GoStale ==
    /\ Live
    /\ stale' = TRUE
    /\ UNCHANGED <<phase, streamID, watchers, sid, streamIDCounter, holder, feed>>

\* onVideoFrame, for a session that was stale.
FrameArrives ==
    /\ feed
    /\ sid # 0
    /\ stale
    /\ stale' = FALSE
    /\ UNCHANGED <<phase, streamID, watchers, sid, streamIDCounter, holder, feed>>

-----------------------------------------------------------------------------
(* Consumers.                                                              *)

Goto(c, p) == phase' = [phase EXCEPT ![c] = p]

\* A client is counted before it starts anything.
Join(c) ==
    /\ phase[c] = "away"
    /\ Goto(c, "joined")
    /\ Add
    /\ UNCHANGED <<streamID, sessions, holder, feed>>

\* It finds a live session, StreamHandler without the lock.
Reuse(c) ==
    /\ phase[c] = "joined"
    /\ Live
    /\ Goto(c, "started")
    /\ UNCHANGED <<streamID, watchers, sessions, holder, feed>>

Start(c) ==
    /\ phase[c] = "joined"
    /\ EnsureBegin(c)
    /\ Goto(c, "starting")
    /\ UNCHANGED streamID

\* The device or the station is unknown, or the station is not connected.
StartRefused(c) ==
    /\ phase[c] = "joined"
    /\ holder = "none"
    /\ Goto(c, "leaving")
    /\ UNCHANGED <<streamID, watchers, sessions, holder, feed>>

Started(c, ok) ==
    /\ EnsureEnds(c, ok)
    /\ Goto(c, IF ok THEN "started" ELSE "leaving")
    /\ UNCHANGED streamID

\* The session to serve is looked up when the lock is free again; so is, in
\* every turn of the serve loop, the one there is now.
Serve(c) ==
    /\ phase[c] \in {"started", "serving"} /\ c \in Clients
    /\ IF sid = 0 THEN Goto(c, "leaving") /\ UNCHANGED streamID
       ELSE Goto(c, "serving") /\ streamID' = [streamID EXCEPT ![c] = sid]
    /\ UNCHANGED <<watchers, sessions, holder, feed>>

\* A heartbeat remembers the session it finds when it connects, if there is one,
Watch(h) ==
    /\ phase[h] = "away"
    /\ Goto(h, "serving")
    /\ streamID' = [streamID EXCEPT ![h] = sid]
    /\ Add
    /\ UNCHANGED <<sessions, holder, feed>>

\* and when a ping frame comes, which browsers never send.
Ping(h) ==
    /\ phase[h] = "serving"
    /\ sid # 0
    /\ streamID' = [streamID EXCEPT ![h] = sid]
    /\ UNCHANGED <<phase, watchers, sessions, holder, feed>>

Disconnect(c) ==
    /\ phase[c] = "serving"
    /\ Goto(c, "leaving")
    /\ UNCHANGED <<streamID, watchers, sessions, holder, feed>>

\* The deferred remove; the request is over.
Leave(c) ==
    /\ phase[c] = "leaving"
    /\ Goto(c, "away")
    /\ Remove(streamID[c])
    /\ streamID' = [streamID EXCEPT ![c] = 0]
    /\ UNCHANGED <<sessions, holder, feed>>

Tick ==
    /\ timers' = [t \in Timers |-> IF timers[t].state = "pending" /\ timers[t].age < Grace
                                   THEN [timers[t] EXCEPT !.age = @ + 1] ELSE timers[t]]
    /\ UNCHANGED <<phase, streamID, counts, timer, lastLeft, sessions, holder, feed>>

-----------------------------------------------------------------------------
Init ==
    /\ phase = [c \in Consumers |-> "away"]
    /\ streamID = [c \in Consumers |-> 0]
    /\ counts = 0
    /\ timer = NoTimer
    /\ timers = [t \in Timers |-> Free]
    /\ sid = 0
    /\ streamIDCounter = 0
    /\ stale = FALSE
    /\ holder = "none"
    /\ feed = FALSE
    /\ lastLeft = Nobody

Next ==
    \/ \E c \in Clients : Join(c) \/ Reuse(c) \/ Start(c) \/ StartRefused(c) \/ Serve(c)
    \/ \E c \in Clients, ok \in BOOLEAN : Started(c, ok)
    \/ \E h \in Heartbeats : Watch(h) \/ Ping(h)
    \/ \E c \in Consumers : Disconnect(c) \/ Leave(c)
    \/ \E t \in Timers : TimerFires(t) \/ TimerChecks(t) \/ Expire(t)
    \/ \E ok \in BOOLEAN : ApiStarted(ok) \/ RestartEnds(ok)
    \/ EnsureStart \/ ApiStart \/ ApiStop
    \/ RestartBegin \/ GoStale \/ FrameArrives \/ Tick

Spec == Init /\ [][Next]_vars

\* StartLivestream returns, timers fire, time passes, and a goroutine that waits
\* for a mutex gets it (Go's mutexes are fair).
Fairness ==
    /\ \A c \in Clients : WF_vars(\E ok \in BOOLEAN : Started(c, ok))
    /\ WF_vars(EnsureStart)
    /\ WF_vars(\E ok \in BOOLEAN : ApiStarted(ok))
    /\ WF_vars(\E ok \in BOOLEAN : RestartEnds(ok))
    /\ \A t \in Timers : WF_vars(TimerFires(t)) /\ WF_vars(TimerChecks(t)) /\ SF_vars(Expire(t))
    /\ WF_vars(Tick)

FairSpec == Spec /\ Fairness

-----------------------------------------------------------------------------
(* Properties.                                                             *)

TypeOK ==
    /\ phase \in [Consumers -> {"away", "joined", "starting", "started", "serving", "leaving"}]
    /\ streamID \in [Consumers -> 0 .. MaxID]
    /\ counts \in 0 .. Cardinality(Consumers)
    /\ timer \in Timers \cup {NoTimer}
    /\ timers \in [Timers -> [state : {"free", "pending", "fired", "expiring"}, id : 0 .. MaxID, age : 0 .. Grace]]
    /\ sid \in {0, streamIDCounter}
    /\ streamIDCounter \in 0 .. MaxID
    /\ {stale, feed} \subseteq BOOLEAN
    /\ holder \in Clients \cup {"none", "api", "restart"}
    /\ lastLeft \in Nobody .. MaxID

\* The count is the number of requests between their add and their deferred
\* remove, whatever start failed in between, and a grace timer is in the map
\* only while it is 0 (watcherSet.add and remove).
WatchersCounted ==
    /\ counts = Cardinality({c \in Consumers : phase[c] # "away"})
    /\ timer # NoTimer => counts = 0 /\ timers[timer].state \in {"pending", "fired"}

\* The station streams only while a session is there to take the frames: no
\* expiry, stop, failed start or failed restart leaves it running.
FeedHasSession == feed => sid # 0

\* When the last consumer leaves the session it watched, that session is stopped
\* unless another consumer comes ("It stops ~30 seconds after the last consumer
\* of that camera disconnects").
AbandonedStops ==
    \A i \in 1 .. MaxID :
        counts = 0 /\ sid = i /\ lastLeft = i ~> counts > 0 \/ sid # i

\* The same for whoever leaves last, as the README says it: "the camera keeps
\* streaming until the last consumer anywhere is gone for 30 seconds".
LastOneOutStops ==
    counts = 0 /\ sid # 0 /\ lastLeft # Nobody ~> counts > 0 \/ sid = 0

\* An expiry stops no session that somebody watches: "a consumer that arrived
\* milliseconds ago must not have its stream killed by an expire that raced its
\* own add()".
WatchedKept ==
    [][(\E t \in Timers : timers[t].state = "expiring" /\ timers'[t].state = "free") /\ sid # 0 /\ sid' = 0
         => counts = 0]_vars
=============================================================================
