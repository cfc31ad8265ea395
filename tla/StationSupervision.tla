-------------------------- MODULE StationSupervision --------------------------
(***************************************************************************)
(* How the server gets a connection to a station and keeps it:             *)
(* cmd/server/main.go, loadStations, connectStations, superviseStations,   *)
(* and pkg/devices/station.go, ConnectWithAPI, ReconnectMain,              *)
(* MainConnected. Each successful login starts a loader of its own, and    *)
(* the supervisor runs beside them; the station's mutex is released while  *)
(* anybody waits.                                                          *)
(*                                                                         *)
(* The module follows one station: the supervisor takes its stations one   *)
(* after the other, so the others only make it slower. Timeouts may happen *)
(* whenever somebody waits; what SetP2PTimeouts stores is left out.        *)
(***************************************************************************)
EXTENDS Integers, FiniteSets

CONSTANTS
    Loaders,     \* the runs of loadAndConnectStations
    Supervisor,
    MaxClients,  \* bound on the clients that exist at a time
    MaxEnds,     \* bound on the sessions the station ends with an END
    MaxReboots,  \* bound on the sessions it forgets without one
    OnLan,       \* it can be found by a client that has no key
    None

Callers == Loaders \cup {Supervisor}
Ids     == 1 .. MaxClients

ASSUME SupervisionAssumption == /\ Supervisor \notin Loaders
                                /\ IsFiniteSet(Loaders)
                                /\ None \notin Ids
                                /\ MaxClients \in Nat \ {0}
                                /\ MaxEnds \in Nat /\ MaxReboots \in Nat
                                /\ OnLan \in BOOLEAN

VARIABLES
    registered,  \* the station is in activeStations
    p2pClient,   \* the station's client, or None
    dskKey,      \* whether the station holds its key
    client,      \* the clients of the process
    withKey,     \* whether a client was made with the key
    session,     \* whether the station still knows the client
    link,        \* its socket and loops: not yet there, running, or ended by Close
    pc, mine, arg, \* where each caller is, the client it made or took, its key argument
    ends, reboots

station == <<registered, p2pClient, dskKey>>
pool    == <<client, withKey, session, link>>
callers == <<pc, mine, arg>>
faults  == <<ends, reboots>>
vars    == <<station, pool, callers, faults>>

P2P(i) == INSTANCE P2PClient WITH status <- client[i]

Gone(i) == [P2P(i)!Fresh EXCEPT !.closed = TRUE]

Held(i) == i = p2pClient \/ \E c \in Callers : mine[c] = i

\* A client that does not run and that nobody holds is collected.
Free == {i \in Ids : link[i] # "open" /\ ~Held(i)}

Init ==
    /\ registered = FALSE
    /\ p2pClient = None
    /\ dskKey = FALSE
    /\ client = [i \in Ids |-> Gone(i)]
    /\ withKey = [i \in Ids |-> FALSE]
    /\ session = [i \in Ids |-> FALSE]
    /\ link = [i \in Ids |-> "shut"]
    /\ pc = [c \in Callers |-> IF c = Supervisor THEN "idle" ELSE "load"]
    /\ mine = [c \in Callers |-> None]
    /\ arg = [c \in Callers |-> FALSE]
    /\ ends = 0
    /\ reboots = 0

Goto(c, label) == pc' = [pc EXCEPT ![c] = label]

Rest(c) == IF c = Supervisor THEN "idle" ELSE "done"

Return(c) == Goto(c, Rest(c)) /\ mine' = [mine EXCEPT ![c] = None]

-----------------------------------------------------------------------------
(* The loaders.                                                            *)

\* GetStations; without an answer the loader gives up.
LoadStations(l) ==
    /\ pc[l] = "load"
    /\ \/ registered' = TRUE /\ Goto(l, "key")
       \/ UNCHANGED registered /\ Goto(l, "done")
    /\ UNCHANGED <<p2pClient, dskKey, pool, mine, arg, faults>>

\* GetDSKKeys; without an answer the loader goes on with an empty key.
GetKey(l) ==
    /\ pc[l] = "key"
    /\ \E k \in BOOLEAN : arg' = [arg EXCEPT ![l] = k]
    /\ Goto(l, "enter")
    /\ UNCHANGED <<station, pool, mine, faults>>

-----------------------------------------------------------------------------
(* ConnectWithAPI, step by step between the points where it holds the      *)
(* mutex.                                                                  *)

\* The new client takes its place before it is connected, and may lose it again.
Enter(c) ==
    /\ pc[c] = "enter"
    /\ IF p2pClient # None
       THEN Return(c) /\ UNCHANGED <<station, pool>>
       ELSE /\ \E i \in Free :
               /\ \A j \in Free : i <= j
               /\ p2pClient' = i
               /\ client' = [client EXCEPT ![i] = P2P(i)!Fresh]
               /\ withKey' = [withKey EXCEPT ![i] = arg[c]]
               /\ session' = [session EXCEPT ![i] = FALSE]
               /\ link' = [link EXCEPT ![i] = "new"]
               /\ mine' = [mine EXCEPT ![c] = i]
            /\ dskKey' = arg[c]
            /\ Goto(c, "connect")
            /\ UNCHANGED registered
    /\ UNCHANGED <<arg, faults>>

\* Connect opens also a client that was closed meanwhile.
Open(c) ==
    /\ pc[c] = "connect"
    /\ link' = [link EXCEPT ![mine[c]] = "open"]
    /\ Goto(c, "wait conn")
    /\ UNCHANGED <<station, client, withKey, session, mine, arg, faults>>

OpenFails(c) ==
    /\ pc[c] = "connect"
    /\ Goto(c, "clear")
    /\ UNCHANGED <<station, pool, mine, arg, faults>>

\* WaitForConnection, then WaitForEncryption.
Released(c) ==
    /\ \/ pc[c] = "wait conn" /\ client[mine[c]].reached /\ Goto(c, "wait enc") /\ UNCHANGED mine
       \/ pc[c] = "wait enc" /\ client[mine[c]].keyed /\ Return(c)
    /\ UNCHANGED <<station, pool, arg, faults>>

Becomes(i, d) == client' = [client EXCEPT ![i] = d]

\* Nothing remembers the Close of a client that is not connected yet.
CloseClient(i) ==
    /\ \E d \in P2P(i)!Status : P2P(i)!Shut(client[i], d) /\ Becomes(i, d)
    /\ session' = [session EXCEPT ![i] = FALSE]
    /\ link' = [link EXCEPT ![i] = IF @ = "open" THEN "shut" ELSE @]

\* Mutant: the caller drops the client before it has emptied the place.
TimedOutDrops(c) ==
    /\ pc[c] \in {"wait conn", "wait enc"}
    /\ CloseClient(mine[c])
    /\ Goto(c, "clear")
    /\ mine' = [mine EXCEPT ![c] = None]
    /\ UNCHANGED <<station, withKey, arg, faults>>

TimedOut(c) ==
    /\ pc[c] \in {"wait conn", "wait enc"}
    /\ CloseClient(mine[c])
    /\ Goto(c, "clear")
    /\ UNCHANGED <<station, withKey, mine, arg, faults>>

\* Whichever client is there now.
Clear(c) ==
    /\ pc[c] = "clear"
    /\ p2pClient' = None
    /\ Return(c)
    /\ UNCHANGED <<registered, dskKey, pool, arg, faults>>

-----------------------------------------------------------------------------
(* The supervisor. What it found may have changed when it acts on it.      *)

MainConnected == p2pClient # None /\ client[p2pClient].up

FindDown ==
    /\ pc[Supervisor] = "idle"
    /\ registered
    /\ ~MainConnected
    /\ Goto(Supervisor, "take")
    /\ UNCHANGED <<station, pool, mine, arg, faults>>

\* Mutant: the old client keeps its place.
TakeOldKeeps ==
    /\ pc[Supervisor] = "take"
    /\ mine' = [mine EXCEPT ![Supervisor] = p2pClient]
    /\ Goto(Supervisor, "close")
    /\ UNCHANGED <<station, pool, arg, faults>>

TakeOld ==
    /\ pc[Supervisor] = "take"
    /\ mine' = [mine EXCEPT ![Supervisor] = p2pClient]
    /\ p2pClient' = None
    /\ Goto(Supervisor, "close")
    /\ UNCHANGED <<registered, dskKey, pool, arg, faults>>

\* Mutant: the old client is dropped and not closed.
CloseOldLeaves ==
    /\ pc[Supervisor] = "close"
    /\ mine' = [mine EXCEPT ![Supervisor] = None]
    /\ arg' = [arg EXCEPT ![Supervisor] = dskKey]
    /\ Goto(Supervisor, "enter")
    /\ UNCHANGED <<station, pool, faults>>

\* Close, and the argument of the call that follows, read without the mutex.
CloseOld ==
    /\ pc[Supervisor] = "close"
    /\ IF mine[Supervisor] = None
       THEN UNCHANGED <<client, session, link>>
       ELSE CloseClient(mine[Supervisor])
    /\ mine' = [mine EXCEPT ![Supervisor] = None]
    /\ arg' = [arg EXCEPT ![Supervisor] = dskKey]
    /\ Goto(Supervisor, "enter")
    /\ UNCHANGED <<station, withKey, faults>>

-----------------------------------------------------------------------------
(* The clients and the station.                                            *)

\* The cloud names the station to a client with the key. An answer may still
\* be at hand when the client is closed.
Answer(i) ==
    /\ link[i] = "open" \/ (link[i] = "shut" /\ Held(i))
    /\ OnLan \/ withKey[i]
    /\ \E d \in P2P(i)!Status : P2P(i)!Reach(client[i], d) /\ Becomes(i, d)
    /\ session' = [session EXCEPT ![i] = link[i] = "open"]
    /\ UNCHANGED <<station, withKey, link, callers, faults>>

AgreeOnKey(i) ==
    /\ session[i] /\ ~client[i].keyed
    /\ \E d \in P2P(i)!Status : P2P(i)!Key(client[i], d) /\ Becomes(i, d)
    /\ UNCHANGED <<station, withKey, session, link, callers, faults>>

End(i) ==
    /\ session[i] /\ ends < MaxEnds
    /\ \E d \in P2P(i)!Status : P2P(i)!Drop(client[i], d) /\ Becomes(i, d)
    /\ session' = [session EXCEPT ![i] = FALSE]
    /\ ends' = ends + 1
    /\ UNCHANGED <<station, withKey, link, callers, reboots>>

\* The station restarts, or the network forgets the path to it: no END comes,
\* and nothing in the client waits for an answer to its PINGs.
Reboot(i) ==
    /\ session[i] /\ reboots < MaxReboots
    /\ session' = [session EXCEPT ![i] = FALSE]
    /\ reboots' = reboots + 1
    /\ UNCHANGED <<station, client, withKey, link, callers, ends>>

Next ==
    \/ \E l \in Loaders : LoadStations(l) \/ GetKey(l)
    \/ \E c \in Callers : Enter(c) \/ Open(c) \/ OpenFails(c) \/ Released(c) \/ TimedOut(c)
                         \/ Clear(c)
    \/ FindDown \/ TakeOld \/ CloseOld
    \/ \E i \in Ids : Answer(i) \/ AgreeOnKey(i) \/ End(i) \/ Reboot(i)

Spec == Init /\ [][Next]_vars

CallerStep(c) == Enter(c) \/ Open(c) \/ OpenFails(c) \/ TimedOut(c) \/ Clear(c)

SupervisorStep == FindDown \/ TakeOld \/ CloseOld \/ CallerStep(Supervisor)

LoaderStep(l) == LoadStations(l) \/ GetKey(l) \/ CallerStep(l)

AnswerInTime ==
    /\ pc[Supervisor] = "wait conn"
    /\ \E i \in Ids : i = mine[Supervisor] /\ Answer(i)

AgreeInTime ==
    /\ pc[Supervisor] = "wait enc"
    /\ \E i \in Ids : i = mine[Supervisor] /\ AgreeOnKey(i)

\* Requests to the cloud and waits have a timeout, and the ticker ticks. The
\* strong conditions are an assumption about the network: of ever new
\* attempts to connect with the key, one opens its socket and is answered in
\* time. A login may get stuck wherever it is.
Fairness ==
    /\ WF_vars(SupervisorStep)
    /\ SF_vars(Open(Supervisor))
    /\ SF_vars(AnswerInTime) /\ SF_vars(AgreeInTime) /\ SF_vars(Released(Supervisor))

FairSpec == Spec /\ Fairness

\* No login gets stuck either.
FairLoginsSpec == FairSpec /\ \A l \in Loaders : WF_vars(LoaderStep(l))

-----------------------------------------------------------------------------
(* Properties.                                                             *)

\* Every variable has its type.
TypeOK ==
    /\ registered \in BOOLEAN /\ dskKey \in BOOLEAN
    /\ p2pClient \in Ids \cup {None}
    /\ client \in [Ids -> [reached : BOOLEAN, keyed : BOOLEAN, up : BOOLEAN, closed : BOOLEAN]]
    /\ withKey \in [Ids -> BOOLEAN] /\ session \in [Ids -> BOOLEAN]
    /\ link \in [Ids -> {"new", "open", "shut"}]
    /\ pc \in [Callers -> {"load", "key", "enter", "connect", "wait conn", "wait enc", "clear",
                           "idle", "take", "close", "done"}]
    /\ mine \in [Callers -> Ids \cup {None}]
    /\ arg \in [Callers -> BOOLEAN]
    /\ \A c \in Callers : pc[c] \in {"connect", "wait conn", "wait enc", "clear"} => mine[c] \in Ids
    /\ ends \in 0 .. MaxEnds /\ reboots \in 0 .. MaxReboots

\* A caller that timed out empties the place also when another caller's client
\* has taken it, which then runs on with nobody to close it; so does a client
\* that the supervisor closed before its login opened it. It takes a login each
\* time: the supervisor's reconnects, however many, lose no client.
LeaksBounded ==
    Cardinality({i \in Ids : link[i] = "open" /\ ~Held(i)}) <= Cardinality(Loaders)

Served == p2pClient # None /\ client[p2pClient].up /\ session[p2pClient]

Unnoticed == p2pClient # None /\ client[p2pClient].up /\ ~session[p2pClient]

\* However the logins, the supervisor and the ENDs of the station interleave, a
\* station whose key is held is connected again, unless its session died
\* without an END.
StationRecovers == registered ~> Served \/ Unnoticed \/ ~dskKey

\* What main.go promises of superviseStations: the station's control channel
\* is kept alive.
StationKept == registered ~> Served
=============================================================================
