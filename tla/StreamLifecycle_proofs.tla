------------------------ MODULE StreamLifecycle_proofs ------------------------
(***************************************************************************)
(* Counting the consumers of a channel and stopping its feed, for any      *)
(* number of consumers, timers and sessions and every grace period:        *)
(* whatever fails, fires late or overtakes, the count is the number of     *)
(* consumers there are (WatchersCounted), the station streams only into a  *)
(* session (FeedHasSession), and what is remembered of a session is a      *)
(* number that was given to one (TypeOK).                                  *)
(***************************************************************************)
EXTENDS StreamLifecycle, FiniteSetTheorems, TLAPS

Phase == {"away", "joined", "starting", "started", "serving", "leaving"}

TimerRecord == [state : {"free", "pending", "fired", "expiring"}, id : Int, age : Int]

\* The consumers between their add and their remove.
Present == {c \in Consumers : phase[c] # "away"}

\* What the invariants need to know of the types.
WatcherType ==
    /\ phase \in [Consumers -> Phase]
    /\ timer \in Timers \cup {NoTimer}
    /\ timers \in [Timers -> TimerRecord]
    /\ streamID \in [Consumers -> Int]
    /\ sid \in Int
    /\ streamIDCounter \in Nat

\* A client that holds the lock is in its start.
HolderStarts == \A c \in Clients : holder = c => phase[c] = "starting"

\* The inductive invariant of the counting.
CountInv == WatcherType /\ WatchersCounted /\ HolderStarts

\* The inductive invariant of the feed: a restart never loses its session.
FeedInv ==
    /\ FeedHasSession
    /\ holder = "restart" => sid # 0
    /\ sid \in Nat
    /\ streamIDCounter \in Nat

-----------------------------------------------------------------------------
(* The feed.                                                               *)

\* A station streams only while there is a session: it holds at the start, and
\* whoever ends a session ends its feed or holds the lock.
THEOREM FeedNeverOrphaned == Spec => []FeedHasSession
  <1>1. Init => FeedInv
    BY DEF Init, FeedInv, FeedHasSession
  <1>2. FeedInv /\ [Next]_vars => FeedInv'
    <2>. SUFFICES ASSUME FeedInv, [Next]_vars
                  PROVE  FeedInv'
      OBVIOUS
    <2>. USE DEF FeedInv, FeedHasSession
    <2>1. ASSUME NEW who \in Clients \cup {"api"}, EnsureBegin(who)
          PROVE  FeedInv'
      BY <2>1, LifecycleAssumption DEF EnsureBegin
    <2>2. ASSUME NEW who \in Clients \cup {"api"}, NEW ok \in BOOLEAN, EnsureEnds(who, ok)
          PROVE  FeedInv'
      BY <2>2 DEF EnsureEnds
    <2>3. ASSUME UNCHANGED <<sessions, holder, feed>>
          PROVE  FeedInv'
      BY <2>3 DEF sessions
    <2>4. ASSUME NEW c \in Clients, Join(c) \/ Reuse(c) \/ StartRefused(c) \/ Serve(c)
          PROVE  FeedInv'
      BY <2>3, <2>4 DEF Join, Reuse, StartRefused, Serve
    <2>5. ASSUME NEW c \in Clients, Start(c)
          PROVE  FeedInv'
      BY <2>1, <2>5 DEF Start
    <2>6. ASSUME NEW c \in Clients, NEW ok \in BOOLEAN, Started(c, ok)
          PROVE  FeedInv'
      BY <2>2, <2>6 DEF Started
    <2>7. ASSUME NEW h \in Heartbeats, Watch(h) \/ Ping(h)
          PROVE  FeedInv'
      BY <2>3, <2>7 DEF Watch, Ping
    <2>8. ASSUME NEW c \in Consumers, Disconnect(c) \/ Leave(c)
          PROVE  FeedInv'
      BY <2>3, <2>8 DEF Disconnect, Leave
    <2>9. ASSUME NEW t \in Timers, TimerFires(t) \/ TimerChecks(t)
          PROVE  FeedInv'
      BY <2>3, <2>9 DEF TimerFires, TimerChecks
    <2>10. ASSUME NEW t \in Timers, Expire(t)
           PROVE  FeedInv'
      BY <2>10 DEF Expire
    <2>11. ASSUME NEW ok \in BOOLEAN, ApiStarted(ok) \/ RestartEnds(ok)
           PROVE  FeedInv'
      <3>1. CASE ApiStarted(ok)
        BY <2>2, <3>1 DEF ApiStarted
      <3>2. CASE RestartEnds(ok)
        BY <3>2 DEF RestartEnds
      <3>. QED
        BY <2>11, <3>1, <3>2
    <2>12. CASE EnsureStart
      BY <2>12 DEF EnsureStart
    <2>13. CASE ApiStart
      BY <2>1, <2>13 DEF ApiStart
    <2>14. CASE ApiStop
      BY <2>14 DEF ApiStop
    <2>15. CASE RestartBegin
      BY <2>15 DEF RestartBegin, sessions
    <2>16. CASE GoStale \/ FrameArrives \/ Tick
      BY <2>16 DEF GoStale, FrameArrives, Tick, sessions
    <2>17. CASE UNCHANGED vars
      BY <2>3, <2>17 DEF vars
    <2>. QED
      BY <2>4, <2>5, <2>6, <2>7, <2>8, <2>9, <2>10, <2>11, <2>12, <2>13, <2>14, <2>15, <2>16, <2>17
      DEF Next
  <1>3. FeedInv => FeedHasSession
    BY DEF FeedInv
  <1>. QED
    BY <1>1, <1>2, <1>3, PTL DEF Spec

-----------------------------------------------------------------------------
(* Counting.                                                               *)

USE DEF TimerRecord

\* The consumers present are finitely many.
LEMMA PresentFinite == IsFiniteSet(Present) /\ Cardinality(Present) \in Nat
  BY LifecycleAssumption, FS_Subset, FS_CardinalityType DEF Present

\* One that comes adds one.
LEMMA ComesIn ==
    ASSUME phase \in [Consumers -> Phase], NEW c \in Consumers, NEW p \in Phase \ {"away"},
           phase[c] = "away", phase' = [phase EXCEPT ![c] = p]
    PROVE  Cardinality(Present') = Cardinality(Present) + 1
  <1>1. Present' = Present \cup {c} /\ c \notin Present
    BY DEF Present, Phase
  <1>. QED
    BY <1>1, PresentFinite, FS_AddElement

\* One that goes takes one away.
LEMMA GoesOut ==
    ASSUME phase \in [Consumers -> Phase], NEW c \in Consumers,
           phase[c] # "away", phase' = [phase EXCEPT ![c] = "away"]
    PROVE  Cardinality(Present') = Cardinality(Present) - 1 /\ Cardinality(Present) > 0
  <1>1. Present' = Present \ {c} /\ c \in Present
    BY DEF Present, Phase
  <1>2. Cardinality(Present') = Cardinality(Present) - 1
    BY <1>1, PresentFinite, FS_RemoveElement
  <1>3. Cardinality(Present) # 0
    BY <1>1, PresentFinite, FS_EmptySet
  <1>. QED
    BY <1>2, <1>3, PresentFinite

\* One that goes on changes nothing.
LEMMA GoesOn ==
    ASSUME phase \in [Consumers -> Phase], NEW c \in Consumers, NEW p \in Phase \ {"away"},
           phase[c] # "away", phase' = [phase EXCEPT ![c] = p]
    PROVE  Present' = Present
  BY DEF Present, Phase

\* add, by a consumer that comes in.
LEMMA AddKeepsCount ==
    ASSUME CountInv, NEW c \in Consumers, NEW p \in Phase \ {"away"},
           phase[c] = "away", Goto(c, p), Add
    PROVE  /\ phase' \in [Consumers -> Phase]
           /\ timer' \in Timers \cup {NoTimer}
           /\ timers' \in [Timers -> TimerRecord]
           /\ WatchersCounted'
  <1>. USE DEF CountInv, WatcherType, WatchersCounted
  <1>1. phase' \in [Consumers -> Phase]
    BY DEF Goto
  <1>2. Cardinality(Present') = Cardinality(Present) + 1
    BY ComesIn DEF Goto
  <1>3. counts' = Cardinality(Present')
    BY <1>2 DEF Add, Present
  <1>4. timer' = NoTimer
    BY DEF Add
  <1>5. timers' \in [Timers -> TimerRecord]
    <2>1. CASE timer # NoTimer /\ timers[timer].state = "pending"
      <3>1. Free \in TimerRecord
        BY DEF Free
      <3>. QED
        BY <2>1, <3>1 DEF Add
    <2>2. CASE ~(timer # NoTimer /\ timers[timer].state = "pending")
      BY <2>2 DEF Add
    <2>. QED
      BY <2>1, <2>2
  <1>. QED
    BY <1>1, <1>3, <1>4, <1>5 DEF Present

\* remove, by a consumer that goes out: nobody removes what was not added.
LEMMA RemoveKeepsCountRight ==
    ASSUME CountInv, NEW c \in Consumers, phase[c] # "away", Goto(c, "away"), Remove(streamID[c])
    PROVE  /\ phase' \in [Consumers -> Phase]
           /\ timer' \in Timers \cup {NoTimer}
           /\ timers' \in [Timers -> TimerRecord]
           /\ WatchersCounted'
  <1>. USE DEF CountInv, WatcherType, WatchersCounted
  <1>1. phase' \in [Consumers -> Phase]
    BY DEF Goto, Phase
  <1>2. Cardinality(Present') = Cardinality(Present) - 1 /\ Cardinality(Present) > 0
    BY GoesOut DEF Goto
  <1>3. counts = Cardinality(Present) /\ counts \in Nat /\ counts # 0
    BY <1>2, PresentFinite DEF Present
  <1>4. timer = NoTimer
    BY <1>3
  <1>5. CASE counts > 1
    <2>1. counts' = counts - 1 /\ timer' = timer /\ timers' = timers
      BY <1>3, <1>5 DEF Remove
    <2>. QED
      BY <1>1, <1>2, <1>3, <1>4, <2>1 DEF Present
  <1>6. CASE counts = 1
    <2>1. /\ counts' = 0
          /\ \E t \in Timers : timers[t] = Free
          /\ timers' = [timers EXCEPT ![NewTimer] = [state |-> "pending", id |-> streamID[c], age |-> 0]]
          /\ timer' = NewTimer
      BY <1>6 DEF Remove
    <2>2. NewTimer \in Timers
      BY <2>1 DEF NewTimer
    <2>3. streamID[c] \in Int
      OBVIOUS
    <2>. HIDE DEF NewTimer
    <2>4. [state |-> "pending", id |-> streamID[c], age |-> 0]
             \in TimerRecord
      BY <2>3
    <2>5. timers' \in [Timers -> TimerRecord]
      BY <2>1, <2>2, <2>4
    <2>6. timers'[timer'].state = "pending"
      BY <2>1, <2>2
    <2>7. counts' = Cardinality(Present')
      BY <1>2, <1>3, <1>6, <2>1
    <2>. QED
      BY <1>1, <2>1, <2>2, <2>5, <2>6, <2>7 DEF Present
  <1>. QED
    BY <1>3, <1>5, <1>6

\* The timers move on: one fires, is checked or is done with, or time passes.
LEMMA TimersKeepCount ==
    ASSUME CountInv, phase' = phase, counts' = counts,
           timer' \in {timer, NoTimer},
           timers' \in [Timers -> TimerRecord],
           timer' # NoTimer => timers'[timer].state \in {"pending", "fired"}
    PROVE  /\ phase' \in [Consumers -> Phase]
           /\ timer' \in Timers \cup {NoTimer}
           /\ WatchersCounted'
  BY DEF CountInv, WatcherType, WatchersCounted

LEMMA CountInit ==
    ASSUME Init
    PROVE  CountInv
  <1>1. {c \in Consumers : phase[c] # "away"} = {}
    BY DEF Init
  <1>2. WatchersCounted
    BY <1>1, FS_EmptySet DEF Init, WatchersCounted
  <1>3. Free \in TimerRecord
    BY DEF Free
  <1>. QED
    BY <1>2, <1>3, LifecycleAssumption DEF Init, CountInv, WatcherType, HolderStarts, Phase

LEMMA CountNext ==
    ASSUME CountInv, [Next]_vars
    PROVE  CountInv'
  <1>a. /\ phase \in [Consumers -> Phase]
        /\ timer \in Timers \cup {NoTimer}
        /\ timers \in [Timers -> TimerRecord]
        /\ streamID \in [Consumers -> Int]
        /\ sid \in Int
        /\ streamIDCounter \in Nat
        /\ WatchersCounted
        /\ HolderStarts
    BY DEF CountInv, WatcherType
  <1>b. Clients \subseteq Consumers /\ Heartbeats \subseteq Consumers
    BY DEF Consumers
  <1>c. "none" \notin Clients /\ "api" \notin Clients /\ "restart" \notin Clients
    BY LifecycleAssumption
  <1>d. Clients \cap Heartbeats = {}
    BY LifecycleAssumption
  <1>0. ASSUME /\ phase' \in [Consumers -> Phase]
               /\ timer' \in Timers \cup {NoTimer}
               /\ timers' \in [Timers -> TimerRecord]
               /\ streamID' \in [Consumers -> Int]
               /\ sid' \in Int
               /\ streamIDCounter' \in Nat
               /\ WatchersCounted'
               /\ HolderStarts'
        PROVE  CountInv'
    BY <1>0 DEF CountInv, WatcherType
  <1>1. ASSUME NEW c \in Consumers, NEW p \in Phase \ {"away"}, phase[c] # "away", Goto(c, p),
               UNCHANGED <<counts, timer, timers>>
        PROVE  phase' \in [Consumers -> Phase] /\ WatchersCounted'
    BY <1>a, <1>1, GoesOn DEF Goto, WatchersCounted, Present
  <1>2. ASSUME NEW c \in Consumers, NEW p \in Phase, phase[c] # "starting", Goto(c, p), holder' = holder
        PROVE  HolderStarts'
    BY <1>a, <1>b, <1>2 DEF Goto, HolderStarts
  <1>3. ASSUME UNCHANGED <<phase, streamID, counts, timer, timers>>, sid' \in Int, streamIDCounter' \in Nat,
               HolderStarts'
        PROVE  CountInv'
    BY <1>0, <1>a, <1>3 DEF WatchersCounted
  <1>4. ASSUME UNCHANGED phase, holder' \in {holder, "none", "api", "restart"}
        PROVE  HolderStarts'
    BY <1>a, <1>c, <1>4 DEF HolderStarts
  <1>5. ASSUME NEW c \in Clients, Join(c)
        PROVE  CountInv'
    <2>1. HolderStarts'
      BY <1>2, <1>5, <1>b DEF Join, Phase
    <2>. QED
      BY <1>0, <1>5, <1>a, <1>b, <2>1, AddKeepsCount DEF Join, sessions, Phase
  <1>6. ASSUME NEW c \in Clients, Reuse(c) \/ StartRefused(c)
        PROVE  CountInv'
    <2>1. HolderStarts'
      BY <1>2, <1>6, <1>b DEF Reuse, StartRefused, Phase
    <2>. QED
      BY <1>0, <1>1, <1>6, <1>a, <1>b, <2>1 DEF Reuse, StartRefused, sessions, watchers, Phase
  <1>7. ASSUME NEW c \in Clients, Serve(c)
        PROVE  CountInv'
    <2>1. streamID' \in [Consumers -> Int]
      BY <1>7, <1>a, <1>b DEF Serve
    <2>2. phase[c] \notin {"away", "starting"} /\ \E p \in {"leaving", "serving"} : Goto(c, p)
      BY <1>7 DEF Serve
    <2>3. HolderStarts'
      BY <1>2, <1>7, <1>b, <2>2 DEF Serve, Phase
    <2>. QED
      BY <1>0, <1>1, <1>7, <1>a, <1>b, <2>1, <2>2, <2>3 DEF Serve, sessions, watchers, Phase
  <1>8. ASSUME NEW c \in Clients, Start(c)
        PROVE  CountInv'
    <2>1. HolderStarts'
      BY <1>8, <1>a, <1>b, <1>c DEF Start, EnsureBegin, HolderStarts, Goto
    <2>. QED
      BY <1>0, <1>1, <1>8, <1>a, <1>b, <2>1 DEF Start, EnsureBegin, watchers, Phase
  <1>9. ASSUME NEW c \in Clients, NEW ok \in BOOLEAN, Started(c, ok)
        PROVE  CountInv'
    <2>1. phase[c] = "starting"
      BY <1>9, <1>a DEF Started, EnsureEnds, HolderStarts
    <2>2. HolderStarts'
      BY <1>9, <1>c DEF Started, EnsureEnds, HolderStarts
    <2>. QED
      BY <1>0, <1>1, <1>9, <1>a, <1>b, <2>1, <2>2 DEF Started, EnsureEnds, watchers, Phase
  <1>10. ASSUME NEW h \in Heartbeats, Watch(h)
         PROVE  CountInv'
    <2>1. HolderStarts'
      BY <1>2, <1>10, <1>b DEF Watch, Phase
    <2>2. streamID' \in [Consumers -> Int]
      BY <1>10, <1>a, <1>b DEF Watch
    <2>. QED
      BY <1>0, <1>10, <1>a, <1>b, <2>1, <2>2, AddKeepsCount DEF Watch, sessions, Phase
  <1>11. ASSUME NEW h \in Heartbeats, Ping(h)
         PROVE  CountInv'
    <2>1. streamID' \in [Consumers -> Int]
      BY <1>11, <1>a, <1>b DEF Ping
    <2>2. HolderStarts'
      BY <1>4, <1>11 DEF Ping
    <2>. QED
      BY <1>0, <1>11, <1>a, <2>1, <2>2 DEF Ping, sessions, watchers, WatchersCounted
  <1>12. ASSUME NEW c \in Consumers, Disconnect(c)
         PROVE  CountInv'
    <2>1. HolderStarts'
      BY <1>2, <1>12 DEF Disconnect, Phase
    <2>. QED
      BY <1>0, <1>1, <1>12, <1>a, <2>1 DEF Disconnect, sessions, watchers, Phase
  <1>13. ASSUME NEW c \in Consumers, Leave(c)
         PROVE  CountInv'
    <2>1. HolderStarts'
      BY <1>2, <1>13 DEF Leave, Phase
    <2>2. streamID' \in [Consumers -> Int]
      BY <1>13, <1>a DEF Leave
    <2>. QED
      BY <1>0, <1>13, <1>a, <2>1, <2>2, RemoveKeepsCountRight DEF Leave, sessions
  <1>14. ASSUME NEW t \in Timers, NEW f \in TimerRecord,
                timers' = [timers EXCEPT ![t] = f],
                timer' \in {timer, NoTimer},
                timer' = t => f.state \in {"pending", "fired"},
                UNCHANGED <<phase, streamID, counts, holder, streamIDCounter>>, sid' \in Int
         PROVE  CountInv'
    <2>1. timers' \in [Timers -> TimerRecord]
      BY <1>14, <1>a
    <2>2. timer' # NoTimer => timers'[timer].state \in {"pending", "fired"}
      BY <1>14, <1>a, LifecycleAssumption DEF WatchersCounted
    <2>3. WatchersCounted' /\ timer' \in Timers \cup {NoTimer}
      BY <1>14, <2>1, <2>2, TimersKeepCount
    <2>. QED
      BY <1>0, <1>4, <1>14, <1>a, <2>1, <2>3
  <1>15. ASSUME NEW t \in Timers, TimerFires(t)
         PROVE  CountInv'
    <2>. DEFINE f == [timers[t] EXCEPT !.state = "fired"]
    <2>1. f \in TimerRecord /\ f.state = "fired"
      BY <1>a
    <2>2. timers' = [timers EXCEPT ![t] = f]
      BY <1>15, <1>a DEF TimerFires
    <2>. HIDE DEF f
    <2>. QED
      BY <1>14, <1>15, <1>a, <2>1, <2>2 DEF TimerFires, sessions
  <1>16. ASSUME NEW t \in Timers, TimerChecks(t)
         PROVE  CountInv'
    <2>. DEFINE f == IF counts = 0 THEN [timers[t] EXCEPT !.state = "expiring"] ELSE Free
    <2>1. f \in TimerRecord
      BY <1>a DEF Free
    <2>2. timers' = [timers EXCEPT ![t] = f]
      BY <1>16, <1>a DEF TimerChecks
    <2>. HIDE DEF f
    <2>3. t # NoTimer
      BY LifecycleAssumption DEF NoTimer
    <2>. QED
      BY <1>14, <1>16, <1>a, <2>1, <2>2, <2>3 DEF TimerChecks, sessions
  <1>17. ASSUME NEW t \in Timers, Expire(t)
         PROVE  CountInv'
    <2>1. Free \in TimerRecord
      BY DEF Free
    <2>2. timer # t
      BY <1>17, <1>a, LifecycleAssumption DEF Expire, WatchersCounted, NoTimer
    <2>3. sid' \in Int
      BY <1>17, <1>a DEF Expire
    <2>. QED
      BY <1>14, <1>17, <1>a, <2>1, <2>2, <2>3 DEF Expire
  <1>18. ASSUME NEW ok \in BOOLEAN, ApiStarted(ok)
         PROVE  CountInv'
    BY <1>3, <1>4, <1>18, <1>a DEF ApiStarted, EnsureEnds, watchers
  <1>19. ASSUME NEW ok \in BOOLEAN, RestartEnds(ok)
         PROVE  CountInv'
    BY <1>3, <1>4, <1>19, <1>a DEF RestartEnds, watchers
  <1>20. CASE EnsureStart
    BY <1>3, <1>4, <1>20, <1>a DEF EnsureStart
  <1>21. CASE ApiStart
    BY <1>3, <1>4, <1>21, <1>a DEF ApiStart, EnsureBegin, watchers
  <1>22. CASE ApiStop
    BY <1>3, <1>4, <1>22, <1>a DEF ApiStop, watchers
  <1>23. CASE RestartBegin
    BY <1>3, <1>4, <1>23, <1>a DEF RestartBegin, watchers, sessions
  <1>24. CASE GoStale \/ FrameArrives
    BY <1>3, <1>4, <1>24, <1>a DEF GoStale, FrameArrives, watchers
  <1>25. CASE Tick
    <2>1. timers' \in [Timers -> TimerRecord] /\ \A t \in Timers : timers'[t].state = timers[t].state
      BY <1>25, <1>a, LifecycleAssumption DEF Tick
    <2>2. timer' # NoTimer => timers'[timer].state \in {"pending", "fired"}
      BY <1>25, <1>a, <2>1 DEF Tick, WatchersCounted
    <2>3. WatchersCounted' /\ timer' \in Timers \cup {NoTimer}
      BY <1>25, <2>1, <2>2, TimersKeepCount DEF Tick
    <2>. QED
      BY <1>0, <1>4, <1>25, <1>a, <2>1, <2>3 DEF Tick, sessions
  <1>26. CASE UNCHANGED vars
    BY <1>3, <1>4, <1>26, <1>a DEF vars, sessions, watchers
  <1>. QED
    BY <1>5, <1>6, <1>7, <1>8, <1>9, <1>10, <1>11, <1>12, <1>13, <1>15, <1>16, <1>17, <1>18, <1>19,
       <1>20, <1>21, <1>22, <1>23, <1>24, <1>25, <1>26
    DEF Next

\* However requests end, starts fail and timers fire, the count is the number of
\* consumers, and a timer is in the map only when it is 0.
THEOREM CountIsRight == Spec => []WatchersCounted
  <1>1. Init => CountInv
    BY CountInit
  <1>2. CountInv /\ [Next]_vars => CountInv'
    BY CountNext
  <1>3. CountInv => WatchersCounted
    BY DEF CountInv
  <1>. QED
    BY <1>1, <1>2, <1>3, PTL DEF Spec

-----------------------------------------------------------------------------
(* The types.                                                              *)

\* A session gets a number only while there are numbers left, and whoever is on
\* the way to a new one has seen that there are.
Numbers ==
    /\ streamIDCounter \in 0 .. MaxID
    /\ sid \in {0, streamIDCounter}
    /\ holder \in Clients \cup {"api"} /\ sid = 0 => streamIDCounter < MaxID
    /\ holder \in Clients \cup {"none", "api", "restart"}

Switches == stale \in BOOLEAN /\ feed \in BOOLEAN

\* What consumers and timers remember of a session is a number that was given.
Memories ==
    /\ \A c \in Consumers : streamID[c] \in 0 .. MaxID
    /\ lastLeft \in Nobody .. MaxID
    /\ \A t \in Timers : timers[t].id \in 0 .. MaxID /\ timers[t].age \in 0 .. Grace

LEMMA NumbersKeep ==
    ASSUME Numbers, [Next]_vars
    PROVE  Numbers'
  <1>1. MaxID \in Nat
    BY LifecycleAssumption
  <1>2. ASSUME UNCHANGED <<sessions, holder>> PROVE Numbers'
    BY <1>2 DEF Numbers, sessions
  <1>3. ASSUME NEW who \in Clients \cup {"api"}, EnsureBegin(who) PROVE Numbers'
    BY <1>3 DEF EnsureBegin, Numbers
  <1>4. ASSUME NEW who, NEW ok, EnsureEnds(who, ok) PROVE Numbers'
    <2>1. /\ holder' = "none" /\ sid' \in {0, sid} /\ streamIDCounter' = streamIDCounter
      BY <1>4 DEF EnsureEnds
    <2>2. "none" \notin Clients \cup {"api"}
      BY LifecycleAssumption
    <2>3. QED BY <2>1, <2>2 DEF Numbers
  <1>5. CASE EnsureStart
    BY <1>1, <1>5 DEF EnsureStart, Numbers
  <1>6. ASSUME NEW c \in Clients, Join(c) \/ Reuse(c) \/ StartRefused(c) \/ Serve(c) PROVE Numbers'
    BY <1>2, <1>6 DEF Join, Reuse, StartRefused, Serve
  <1>7. ASSUME NEW c \in Clients, NEW ok, Start(c) \/ Started(c, ok) PROVE Numbers'
    BY <1>3, <1>4, <1>7 DEF Start, Started
  <1>8. ASSUME NEW c, Watch(c) \/ Ping(c) \/ Disconnect(c) \/ Leave(c) PROVE Numbers'
    BY <1>2, <1>8 DEF Watch, Ping, Disconnect, Leave
  <1>9. ASSUME NEW t, TimerFires(t) \/ TimerChecks(t) PROVE Numbers'
    BY <1>2, <1>9 DEF TimerFires, TimerChecks
  <1>10. "none" \notin Clients \cup {"api"} /\ "restart" \notin Clients \cup {"api"}
    BY LifecycleAssumption
  <1>11. ASSUME NEW t, Expire(t) PROVE Numbers'
    <2>1. /\ holder = "none" /\ holder' = holder /\ sid' \in {0, sid}
          /\ streamIDCounter' = streamIDCounter
      BY <1>11 DEF Expire
    <2>2. QED BY <1>10, <2>1 DEF Numbers
  <1>12. CASE ApiStop
    <2>1. /\ holder = "none" /\ holder' = holder /\ sid' = 0 /\ streamIDCounter' = streamIDCounter
      BY <1>12 DEF ApiStop
    <2>2. QED BY <1>10, <2>1 DEF Numbers
  <1>13. CASE RestartBegin
    BY <1>10, <1>13 DEF RestartBegin, Numbers, sessions
  <1>14. ASSUME NEW ok, RestartEnds(ok) PROVE Numbers'
    BY <1>10, <1>14 DEF RestartEnds, Numbers
  <1>15. CASE GoStale \/ FrameArrives \/ Tick \/ UNCHANGED vars
    BY <1>15 DEF GoStale, FrameArrives, Tick, vars, Numbers, sessions
  <1>16. CASE ApiStart
    BY <1>3, <1>16 DEF ApiStart
  <1>17. ASSUME NEW ok, ApiStarted(ok) PROVE Numbers'
    BY <1>4, <1>17 DEF ApiStarted
  <1>18. QED
    BY <1>5, <1>6, <1>7, <1>8, <1>9, <1>11, <1>12, <1>13, <1>14, <1>15, <1>16, <1>17 DEF Next

LEMMA SwitchesKeep ==
    ASSUME Switches, [Next]_vars
    PROVE  Switches'
  <1>1. ASSUME UNCHANGED <<sessions, feed>> PROVE Switches'
    BY <1>1, Zenon DEF Switches, sessions
  <1>2. ASSUME NEW who, EnsureBegin(who) PROVE Switches'
    <2>1. stale' = FALSE /\ (feed' = feed \/ feed' = FALSE)
      BY <1>2, Zenon DEF EnsureBegin
    <2>2. QED BY <2>1, Zenon DEF Switches
  <1>3. ASSUME NEW who, NEW ok \in BOOLEAN, EnsureEnds(who, ok) PROVE Switches'
    BY <1>3, Zenon DEF EnsureEnds, Switches
  <1>4. ASSUME NEW c, Join(c) \/ Reuse(c) \/ StartRefused(c) \/ Serve(c) PROVE Switches'
    BY <1>1, <1>4, Zenon DEF Join, Reuse, StartRefused, Serve
  <1>5. ASSUME NEW c, NEW ok \in BOOLEAN, Start(c) \/ Started(c, ok) PROVE Switches'
    BY <1>2, <1>3, <1>5, Zenon DEF Start, Started
  <1>6. ASSUME NEW c, Watch(c) \/ Ping(c) \/ Disconnect(c) \/ Leave(c) PROVE Switches'
    BY <1>1, <1>6, Zenon DEF Watch, Ping, Disconnect, Leave
  <1>7. ASSUME NEW t, TimerFires(t) \/ TimerChecks(t) PROVE Switches'
    BY <1>1, <1>7, Zenon DEF TimerFires, TimerChecks
  <1>8. ASSUME NEW t, Expire(t) PROVE Switches'
    <2>1. (stale' = FALSE /\ feed' = FALSE) \/ (stale' = stale /\ feed' = feed)
      BY <1>8, Zenon DEF Expire
    <2>2. QED BY <2>1, Zenon DEF Switches
  <1>9. ASSUME NEW ok \in BOOLEAN, ApiStarted(ok) PROVE Switches'
    BY <1>3, <1>9, Zenon DEF ApiStarted
  <1>10. ASSUME NEW ok \in BOOLEAN, RestartEnds(ok) PROVE Switches'
    <2>1. stale' \in BOOLEAN
      BY <1>10 DEF RestartEnds
    <2>2. feed' = ok
      BY <1>10, Zenon DEF RestartEnds
    <2>3. QED BY <2>1, <2>2, Zenon DEF Switches
  <1>11. CASE EnsureStart \/ ApiStop \/ RestartBegin
    BY <1>11, Zenon DEF EnsureStart, ApiStop, RestartBegin, Switches, sessions
  <1>12. CASE ApiStart
    BY <1>2, <1>12, Zenon DEF ApiStart
  <1>13. CASE GoStale \/ FrameArrives \/ Tick \/ UNCHANGED vars
    BY <1>13, Zenon DEF GoStale, FrameArrives, Tick, vars, Switches, sessions
  <1>14. QED
    BY <1>4, <1>5, <1>6, <1>7, <1>8, <1>9, <1>10, <1>11, <1>12, <1>13, Zenon DEF Next

LEMMA MemoriesKeep ==
    ASSUME CountInv, Numbers, Memories, [Next]_vars
    PROVE  Memories'
  <1>1. /\ MaxID \in Nat /\ Grace \in Nat /\ sid \in 0 .. MaxID /\ Nobody = -1
        /\ timers \in [Timers -> TimerRecord] /\ streamID \in [Consumers -> Int]
        /\ timer \in Timers \cup {NoTimer}
    BY LifecycleAssumption DEF Numbers, Nobody, CountInv, WatcherType
  <1>2. Clients \subseteq Consumers /\ Heartbeats \subseteq Consumers
    BY DEF Consumers
  <1>3. ASSUME UNCHANGED <<streamID, watchers>> PROVE Memories'
    BY <1>3 DEF Memories, watchers
  <1>4. ASSUME NEW t \in Timers, NEW f \in TimerRecord, f.id \in 0 .. MaxID, f.age \in 0 .. Grace,
               timers' = [timers EXCEPT ![t] = f], UNCHANGED <<streamID, lastLeft>>
        PROVE  Memories'
    BY <1>1, <1>4 DEF Memories
  <1>5. Free \in TimerRecord /\ Free.id \in 0 .. MaxID /\ Free.age \in 0 .. Grace
    BY <1>1 DEF Free
  <1>6. ASSUME Add, UNCHANGED streamID PROVE Memories'
    <2>1. lastLeft' = lastLeft
      BY <1>6 DEF Add
    <2>2. CASE timer # NoTimer /\ timers[timer].state = "pending"
      <3>1. timer \in Timers /\ timers' = [timers EXCEPT ![timer] = Free]
        BY <1>1, <1>6, <2>2 DEF Add
      <3>2. QED BY <1>4, <1>5, <1>6, <2>1, <3>1
    <2>3. CASE ~(timer # NoTimer /\ timers[timer].state = "pending")
      BY <1>6, <2>1, <2>3 DEF Add, Memories
    <2>4. QED BY <2>2, <2>3
  <1>7. ASSUME NEW c \in Consumers, NEW id \in 0 .. MaxID, Memories,
               streamID' = [streamID EXCEPT ![c] = id], UNCHANGED <<lastLeft, timers>>
        PROVE  Memories'
    BY <1>1, <1>7 DEF Memories
  <1>8. ASSUME NEW c \in Clients, Join(c) PROVE Memories'
    BY <1>6, <1>8 DEF Join
  <1>9. ASSUME NEW c \in Clients, NEW ok, Reuse(c) \/ StartRefused(c) \/ Start(c) \/ Started(c, ok)
        PROVE  Memories'
    BY <1>3, <1>9 DEF Reuse, StartRefused, Start, Started, EnsureBegin, EnsureEnds
  <1>10. ASSUME NEW c \in Clients, Serve(c) PROVE Memories'
    BY <1>1, <1>2, <1>3, <1>7, <1>10 DEF Serve, watchers
  <1>11. ASSUME NEW h \in Heartbeats, Watch(h) PROVE Memories'
    <2>1. streamID' = [streamID EXCEPT ![h] = sid] /\ lastLeft' = lastLeft /\ h \in Consumers
      BY <1>2, <1>11 DEF Watch, Add
    <2>2. \A c \in Consumers : streamID'[c] \in 0 .. MaxID
      BY <1>1, <2>1 DEF Memories
    <2>3. \A t \in Timers : timers'[t].id \in 0 .. MaxID /\ timers'[t].age \in 0 .. Grace
      <3>1. timers' = timers \/ (timer \in Timers /\ timers' = [timers EXCEPT ![timer] = Free])
        BY <1>1, <1>11 DEF Watch, Add
      <3>2. QED BY <1>1, <1>5, <3>1 DEF Memories
    <2>4. QED BY <2>1, <2>2, <2>3 DEF Memories
  <1>12. ASSUME NEW h \in Heartbeats, Ping(h) PROVE Memories'
    BY <1>1, <1>2, <1>7, <1>12 DEF Ping, watchers
  <1>13. ASSUME NEW c \in Consumers, Disconnect(c) PROVE Memories'
    BY <1>3, <1>13 DEF Disconnect
  <1>14. ASSUME NEW c \in Consumers, Leave(c) PROVE Memories'
    <2>1. Remove(streamID[c]) /\ streamID' = [streamID EXCEPT ![c] = 0]
      BY <1>14 DEF Leave
    <2>2. streamID[c] \in 0 .. MaxID
      BY DEF Memories
    <2>3. \A d \in Consumers : streamID'[d] \in 0 .. MaxID
      BY <1>1, <2>1 DEF Memories
    <2>4. \/ UNCHANGED <<lastLeft, timers>>
          \/ /\ lastLeft' = streamID[c]
             /\ \E t \in Timers : timers[t] = Free
             /\ timers' = [timers EXCEPT ![NewTimer] = [state |-> "pending", id |-> streamID[c], age |-> 0]]
      BY <2>1 DEF Remove, watchers
    <2>5. CASE UNCHANGED <<lastLeft, timers>>
      BY <2>3, <2>5 DEF Memories
    <2>6. CASE ~UNCHANGED <<lastLeft, timers>>
      <3>1. NewTimer \in Timers
        BY <2>4, <2>6 DEF NewTimer
      <3>. DEFINE f == [state |-> "pending", id |-> streamID[c], age |-> 0]
      <3>2. f.id \in 0 .. MaxID /\ f.age \in 0 .. Grace
        BY <1>1, <2>2
      <3>. HIDE DEF f, NewTimer
      <3>3. timers' = [timers EXCEPT ![NewTimer] = f] /\ lastLeft' = streamID[c]
        BY <2>4, <2>6 DEF f
      <3>4. \A t \in Timers : timers'[t].id \in 0 .. MaxID /\ timers'[t].age \in 0 .. Grace
        BY <1>1, <3>1, <3>2, <3>3 DEF Memories
      <3>5. lastLeft' \in Nobody .. MaxID
        BY <1>1, <2>2, <3>3
      <3>6. QED BY <2>3, <3>4, <3>5 DEF Memories
    <2>7. QED BY <2>5, <2>6
  <1>15. ASSUME NEW t \in Timers, TimerFires(t) PROVE Memories'
    <2>. DEFINE f == [timers[t] EXCEPT !.state = "fired"]
    <2>1. f \in TimerRecord /\ f.id \in 0 .. MaxID /\ f.age \in 0 .. Grace
      BY <1>1 DEF Memories
    <2>2. timers' = [timers EXCEPT ![t] = f]
      BY <1>1, <1>15 DEF TimerFires
    <2>. HIDE DEF f
    <2>3. QED BY <1>4, <1>15, <2>1, <2>2 DEF TimerFires
  <1>16. ASSUME NEW t \in Timers, TimerChecks(t) PROVE Memories'
    <2>. DEFINE f == IF counts = 0 THEN [timers[t] EXCEPT !.state = "expiring"] ELSE Free
    <2>1. f \in TimerRecord /\ f.id \in 0 .. MaxID /\ f.age \in 0 .. Grace
      BY <1>1, <1>5 DEF Memories
    <2>2. timers' = [timers EXCEPT ![t] = f]
      BY <1>1, <1>16 DEF TimerChecks
    <2>. HIDE DEF f
    <2>3. QED BY <1>4, <1>16, <2>1, <2>2 DEF TimerChecks
  <1>17. ASSUME NEW t \in Timers, Expire(t) PROVE Memories'
    BY <1>4, <1>5, <1>17 DEF Expire
  <1>18. CASE EnsureStart
    BY <1>1, <1>18 DEF EnsureStart, Memories
  <1>19. ASSUME NEW ok, ApiStarted(ok) \/ RestartEnds(ok) PROVE Memories'
    BY <1>3, <1>19 DEF ApiStarted, EnsureEnds, RestartEnds
  <1>20. CASE ApiStart \/ ApiStop \/ RestartBegin \/ GoStale \/ FrameArrives \/ UNCHANGED vars
    BY <1>3, <1>20 DEF ApiStart, EnsureBegin, ApiStop, RestartBegin, GoStale, FrameArrives, vars
  <1>21. CASE Tick
    <2>1. \A t \in Timers : /\ timers'[t].id = timers[t].id
                            /\ \/ timers'[t].age = timers[t].age
                               \/ timers[t].age < Grace /\ timers'[t].age = timers[t].age + 1
      BY <1>1, <1>21 DEF Tick
    <2>2. QED BY <1>1, <1>21, <2>1 DEF Tick, Memories
  <1>22. QED
    BY <1>8, <1>9, <1>10, <1>11, <1>12, <1>13, <1>14, <1>15, <1>16, <1>17, <1>18, <1>19, <1>20, <1>21
    DEF Next

RangesInv == CountInv /\ Numbers /\ Switches /\ Memories

\* Whatever the consumers, timers and starts do: the session there is, if any, is
\* the last one a number was given to, what consumers and timers remember of
\* sessions are numbers that were given, and no more consumers are counted than
\* there are (watcherSet, StartStream).
THEOREM TypeCorrect == Spec => []TypeOK
  <1>1. Init => RangesInv
    <2>. SUFFICES ASSUME Init PROVE RangesInv
      OBVIOUS
    <2>1. Numbers
      BY LifecycleAssumption DEF Init, Numbers
    <2>2. Switches
      BY Zenon DEF Init, Switches
    <2>3. Memories
      BY LifecycleAssumption DEF Init, Memories, Free, Nobody
    <2>4. QED BY <2>1, <2>2, <2>3, CountInit DEF RangesInv
  <1>2. RangesInv /\ [Next]_vars => RangesInv'
    BY CountNext, NumbersKeep, SwitchesKeep, MemoriesKeep, Zenon DEF RangesInv
  <1>3. RangesInv => TypeOK
    <2>. SUFFICES ASSUME RangesInv PROVE TypeOK
      OBVIOUS
    <2>1. /\ phase \in [Consumers -> {"away", "joined", "starting", "started", "serving", "leaving"}]
          /\ timer \in Timers \cup {NoTimer}
          /\ timers \in [Timers -> TimerRecord] /\ streamID \in [Consumers -> Int]
      BY DEF RangesInv, CountInv, WatcherType, Phase
    <2>2. streamID \in [Consumers -> 0 .. MaxID] /\ lastLeft \in Nobody .. MaxID
      BY <2>1 DEF RangesInv, Memories
    <2>3. timers \in [Timers -> [state : {"free", "pending", "fired", "expiring"},
                                 id : 0 .. MaxID, age : 0 .. Grace]]
      BY <2>1 DEF RangesInv, Memories
    <2>4. counts \in 0 .. Cardinality(Consumers)
      <3>1. IsFiniteSet(Consumers) /\ Present \subseteq Consumers
        BY LifecycleAssumption DEF Present
      <3>2. Cardinality(Present) <= Cardinality(Consumers) /\ Cardinality(Consumers) \in Nat
        BY <3>1, FS_Subset, FS_CardinalityType
      <3>3. counts = Cardinality(Present)
        BY DEF RangesInv, CountInv, WatchersCounted, Present
      <3>4. QED BY <3>2, <3>3, PresentFinite
    <2>5. {stale, feed} \subseteq BOOLEAN
      BY Zenon DEF RangesInv, Switches
    <2>6. /\ sid \in {0, streamIDCounter} /\ streamIDCounter \in 0 .. MaxID
          /\ holder \in Clients \cup {"none", "api", "restart"}
      BY DEF RangesInv, Numbers
    <2>7. QED BY <2>1, <2>2, <2>3, <2>4, <2>5, <2>6, Zenon DEF TypeOK
  <1>4. QED BY <1>1, <1>2, <1>3, PTL DEF Spec
=============================================================================
