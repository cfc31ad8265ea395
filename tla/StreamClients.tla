---------------------------- MODULE StreamClients ----------------------------
(***************************************************************************)
(* The P2P connection that the streams of one device share:                *)
(* pkg/devices/station.go, StartLivestream and StopLivestream, called by   *)
(* pkg/web/handler.go, ensureStreamLocked, restartStaleStream,             *)
(* stopLivestream and stopExpiredStream under the device's streamOpLock.   *)
(* The connection, the camera and the sessions change at any point of a    *)
(* call; only other calls wait for its end. The station is online, and     *)
(* StreamLifecycle says when the calls are made.                           *)
(***************************************************************************)
EXTENDS Naturals

CONSTANTS
    Channels,   \* of the device
    None,       \* no call holds the lock
    MaxFaults   \* bound on the connections and feeds that break or turn corrupt

ASSUME StreamClientsAssumption == None \notin Channels /\ MaxFaults \in Nat

VARIABLES
    conn,           \* the device's entry of streamClients: "none", or a client that is
                    \* "up", "mute" (the station has forgotten it) or "down" (END)
    streamChannels, \* the channels registered with it
    feed,           \* the channels the camera streams over it
    session,        \* of each channel: "none", "waiting", "fed", "stale", or "corrupt"
                    \* (so many invalid frames in a row that NeedsRestart says so)
    ch, pc,         \* the channel the call is about, and where it is
    restart,        \* the call is a restart
    faults

client == <<conn, streamChannels>>
op     == <<ch, pc, restart>>
vars   == <<client, feed, session, op, faults>>

Sessions == {"none", "waiting", "fed", "stale", "corrupt"}

Init ==
    /\ conn = "none"
    /\ streamChannels = {}
    /\ feed = {}
    /\ session = [c \in Channels |-> "none"]
    /\ ch = None
    /\ pc = "idle"
    /\ restart = FALSE
    /\ faults = 0

SetSession(c, s) == session' = [session EXCEPT ![c] = s]

-----------------------------------------------------------------------------
(* StopLivestream. Its command may be lost.                                *)

\* Mutant: every stop closes the connection.
StopLivestreamCloses(c) ==
    /\ conn' = "none"
    /\ streamChannels' = streamChannels \ {c}
    /\ feed' = {}

\* Only the last channel's stop closes the connection.
StopLivestream(c) ==
    IF conn = "none"
    THEN UNCHANGED <<client, feed>>
    ELSE IF streamChannels \subseteq {c}
         THEN conn' = "none" /\ streamChannels' = {} /\ feed' = {}
         ELSE /\ streamChannels' = streamChannels \ {c}
              /\ feed' \in {feed, feed \ {c}}
              /\ UNCHANGED conn

-----------------------------------------------------------------------------
(* The calls.                                                              *)

Begin(c, r) == pc = "idle" /\ pc' = "start" /\ ch' = c /\ restart' = r

\* ensureStreamLocked, when it finds no session or a stale one. Without a
\* session it does not stop what the station may still hold for the channel.
Ensure(c) ==
    /\ session[c] \in {"none", "stale"}
    /\ Begin(c, FALSE)
    /\ IF session[c] = "none" THEN UNCHANGED <<client, feed>> ELSE StopLivestream(c)
    /\ SetSession(c, "waiting")
    /\ UNCHANGED faults

\* restartStaleStream, when NeedsRestart: the feed is dead or corrupt. It forgets
\* the invalid frames; a stale session stays stale until the restart is over.
Restart(c) ==
    /\ session[c] \in {"stale", "corrupt"}
    /\ Begin(c, TRUE)
    /\ StopLivestream(c)
    /\ SetSession(c, IF session[c] = "corrupt" THEN "waiting" ELSE "stale")
    /\ UNCHANGED faults

Stop(c) ==
    /\ pc = "idle" /\ session[c] # "none"
    /\ StopLivestream(c)
    /\ SetSession(c, "none")
    /\ UNCHANGED <<op, faults>>

\* ResetLastUpdate, MarkRestartFailed or StopStream. The first leaves the count of
\* invalid frames that came meanwhile.
Return(ok) ==
    /\ pc' = "idle" /\ ch' = None /\ restart' = FALSE
    /\ SetSession(ch, IF ok THEN IF session[ch] = "corrupt" THEN "corrupt" ELSE "waiting"
                      ELSE IF restart THEN "stale" ELSE "none")

NextStep(step) ==
    IF ch \in streamChannels'
    THEN Return(TRUE)
    ELSE pc' = step /\ UNCHANGED <<ch, restart, session>>

\* Mutant: a client that is down is shared like any other.
LookupKeepsDead ==
    /\ pc = "start"
    /\ UNCHANGED <<client, feed, faults>>
    /\ NextStep(IF conn' = "none" THEN "connect" ELSE "reuse")

\* Mutant: the early return forgets the lock.
LookupKeepsLock ==
    /\ pc = "start"
    /\ IF conn = "down"
       THEN conn' = "none" /\ streamChannels' = {} /\ feed' = {}
       ELSE UNCHANGED <<client, feed>>
    /\ pc' = IF ch \in streamChannels' THEN "idle"
             ELSE IF conn' = "none" THEN "connect" ELSE "reuse"
    /\ UNCHANGED <<ch, restart, session, faults>>

\* StartLivestream up to its first unlock: a dead client is dropped with all
\* its channels, and a channel that is registered needs nothing more.
Lookup ==
    /\ pc = "start"
    /\ IF conn = "down"
       THEN conn' = "none" /\ streamChannels' = {} /\ feed' = {}
       ELSE UNCHANGED <<client, feed>>
    /\ NextStep(IF conn' = "none" THEN "connect" ELSE "reuse")
    /\ UNCHANGED faults

\* The start command goes out; whether the camera hears it is another matter.
Sent == feed' \in {feed, IF conn = "up" THEN feed \cup {ch} ELSE feed}

Reuse ==
    /\ pc = "reuse"
    /\ \/ Sent /\ streamChannels' = streamChannels \cup {ch} /\ Return(TRUE)
       \/ Return(FALSE) /\ UNCHANGED <<streamChannels, feed>>
    /\ UNCHANGED <<conn, faults>>

\* Connect and the two waits; the new client is registered with the channel
\* before the command that starts it.
Connect ==
    /\ pc = "connect"
    /\ \/ /\ conn' = "up" /\ streamChannels' = streamChannels \cup {ch}
          /\ pc' = "send"
          /\ UNCHANGED <<ch, restart, session>>
       \/ Return(FALSE) /\ UNCHANGED client
    /\ UNCHANGED <<feed, faults>>

SendStart ==
    /\ pc = "send"
    /\ \/ Sent /\ Return(TRUE)
       \/ Return(FALSE) /\ UNCHANGED feed
    /\ UNCHANGED <<client, faults>>

-----------------------------------------------------------------------------
(* The connection, the camera and the sessions.                            *)

Break(c) ==
    /\ faults < MaxFaults /\ faults' = faults + 1
    /\ conn = "up"
    /\ \/ conn' \in {"mute", "down"} /\ feed' = {}
       \/ c \in feed /\ feed' = feed \ {c} /\ UNCHANGED conn
    /\ UNCHANGED <<streamChannels, session, op>>

\* onVideoFrame with a valid frame; one of a channel without a session is dropped.
Frame(c) ==
    /\ c \in feed
    /\ session[c] \in {"waiting", "stale", "corrupt"}
    /\ SetSession(c, "fed")
    /\ UNCHANGED <<client, feed, op, faults>>

\* A camera that sent valid frames sends nothing but invalid ones.
Corrupt(c) ==
    /\ faults < MaxFaults /\ faults' = faults + 1
    /\ c \in feed
    /\ session[c] = "fed"
    /\ SetSession(c, "corrupt")
    /\ UNCHANGED <<client, feed, op>>

GoStale(c) ==
    /\ c \notin feed
    /\ session[c] \in {"waiting", "fed", "corrupt"}
    /\ ~(pc # "idle" /\ ch = c)
    /\ SetSession(c, "stale")
    /\ UNCHANGED <<client, feed, op, faults>>

Next ==
    \/ \E c \in Channels : \/ Ensure(c) \/ Restart(c) \/ Stop(c)
                           \/ Break(c) \/ Frame(c) \/ Corrupt(c) \/ GoStale(c)
    \/ Lookup \/ Reuse \/ Connect \/ SendStart

Spec == Init /\ [][Next]_vars

\* A connection is made and the camera hears a command.
Connected(c) == ch = c /\ Connect /\ pc' = "send"

Heard(c) == ch = c /\ (Reuse \/ SendStart) /\ c \in feed'

\* A feed that has just been started, or is thought dead, brings a frame. One that
\* is corrupt need not get better by itself.
FirstFrame(c) == session[c] # "corrupt" /\ Frame(c)

\* Waits time out, frames arrive, and a consumer or the monitor sees that a
\* session is stale or corrupt; the lock is granted in turn. The strong conditions
\* on the network and the camera: of ever new attempts one is answered.
Fairness ==
    /\ WF_vars(Lookup) /\ WF_vars(Reuse) /\ WF_vars(Connect) /\ WF_vars(SendStart)
    /\ \A c \in Channels : /\ WF_vars(FirstFrame(c)) /\ WF_vars(GoStale(c)) /\ SF_vars(Restart(c))
                           /\ SF_vars(Connected(c)) /\ SF_vars(Heard(c))

FairSpec == Spec /\ Fairness

-----------------------------------------------------------------------------
(* Properties.                                                             *)

\* Every variable has its type, and the lock is held exactly during a call.
TypeOK ==
    /\ conn \in {"none", "up", "mute", "down"}
    /\ streamChannels \subseteq Channels
    /\ feed \subseteq Channels
    /\ session \in [Channels -> Sessions]
    /\ ch \in Channels \cup {None} /\ restart \in BOOLEAN
    /\ pc \in {"idle", "start", "reuse", "connect", "send"}
    /\ pc = "idle" <=> ch = None
    /\ faults \in 0 .. MaxFaults

\* streamClients and streamChannels agree, whatever fails in between: no
\* connection stays open with no channel to close it, and no channel is
\* registered for a connection that is gone.
ClientHasChannel == conn = "none" <=> streamChannels = {}

\* The restart of a stream cannot replace a half-open connection that another
\* channel is registered for.
Stuck(c) == conn = "mute" /\ streamChannels \ {c} # {}

\* Whatever breaks or turns corrupt, and however starts, stops and restarts of two channels
\* follow each other, a session gets frames again or is removed, unless the
\* shared connection is half open.
SessionFed ==
    \A c \in Channels : session[c] # "none" ~> session[c] \in {"fed", "none"} \/ Stuck(c)

\* What restartStaleStream promises: the restart also recovers from a dead or
\* half-open UDP session.
RestartRecovers ==
    \A c \in Channels : session[c] # "none" ~> session[c] \in {"fed", "none"}

\* What Station says of streamChannels: the channels that are streaming.
ChannelsHaveSessions == pc = "idle" => \A c \in streamChannels : session[c] # "none"
=============================================================================
