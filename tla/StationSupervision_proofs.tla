----------------------- MODULE StationSupervision_proofs -----------------------
(***************************************************************************)
(* However many logins and reconnects race each other, no more clients are *)
(* lost than there were logins.                                            *)
(***************************************************************************)
EXTENDS StationSupervision, FiniteSetTheorems, TLAPS

\* A caller connects its client, waits for it, or is about to empty the place it
\* gave it.
Waiting == {"connect", "wait conn", "wait enc", "clear"}

\* Only a caller that waits, or has taken the old client to close it, holds a
\* client; each waits for one of its own, which does not run before it is
\* connected, nor after the caller has given up.
ClientsOwned ==
    /\ \A c \in Callers : pc[c] \in {"connect", "clear"} => link[mine[c]] # "open"
    /\ \A b, c \in Callers : b # c /\ pc[b] \in Waiting /\ pc[c] \in Waiting => mine[b] # mine[c]
    /\ \A c \in Callers : pc[c] \notin Waiting \cup {"close"} => mine[c] = None
    /\ \A l \in Loaders : pc[l] \notin {"idle", "take", "close"}
    /\ pc[Supervisor] # "done"

Leaked == {i \in Ids : link[i] = "open" /\ ~Held(i)}

\* Another client, or none, is where the supervisor put its own.
Displaced == pc[Supervisor] \in Waiting /\ mine[Supervisor] # p2pClient

\* Who may still lose a client: a login, once, and the supervisor only when a
\* login has taken the place from it, which costs that login its turn.
Owing == {l \in Loaders : pc[l] # "done"} \cup {c \in {Supervisor} : Displaced}

Account == /\ IsFiniteSet(Leaked) /\ IsFiniteSet(Owing)
           /\ Cardinality(Leaked) + Cardinality(Owing) <= Cardinality(Loaders)

SupervisionInv == TypeOK /\ ClientsOwned /\ Account

-----------------------------------------------------------------------------
(* The account: nothing is lost, or somebody pays for what is lost, or a    *)
(* login passes its debt on to the supervisor.                             *)

NothingLost == Leaked' \subseteq Leaked /\ Owing' \subseteq Owing

Paid(c) == /\ c \in Owing
           /\ \E x : Leaked' \subseteq Leaked \cup {x}
           /\ Owing' \subseteq Owing \ {c}

PassedOn(c) == /\ c \in Owing
               /\ Leaked' \subseteq Leaked
               /\ Owing' \subseteq (Owing \ {c}) \cup {Supervisor}

LEMMA AccountKept ==
    ASSUME Account, NothingLost \/ \E c : Paid(c) \/ PassedOn(c)
    PROVE  Account'
  <1>. USE DEF Account
  <1>1. /\ Cardinality(Leaked) \in Nat /\ Cardinality(Owing) \in Nat
        /\ Cardinality(Loaders) \in Nat /\ UNCHANGED Cardinality(Loaders)
    BY FS_CardinalityType, SupervisionAssumption
  <1>2. CASE NothingLost
    <2>1. /\ IsFiniteSet(Leaked') /\ IsFiniteSet(Owing')
          /\ Cardinality(Leaked') <= Cardinality(Leaked)
          /\ Cardinality(Owing') <= Cardinality(Owing)
      BY <1>2, FS_Subset DEF NothingLost
    <2>2. Cardinality(Leaked') \in Nat /\ Cardinality(Owing') \in Nat
      BY <2>1, FS_CardinalityType
    <2>3. QED BY <1>1, <2>1, <2>2
  <1>3. CASE \E c : Paid(c)
    <2>1. PICK c : Paid(c)
      BY <1>3
    <2>2. PICK x : Leaked' \subseteq Leaked \cup {x}
      BY <2>1 DEF Paid
    <2>3. /\ IsFiniteSet(Leaked \cup {x})
          /\ Cardinality(Leaked \cup {x}) <= Cardinality(Leaked) + 1
      <3>1. /\ IsFiniteSet(Leaked \cup {x})
            /\ Cardinality(Leaked \cup {x}) =
                 IF x \in Leaked THEN Cardinality(Leaked) ELSE Cardinality(Leaked) + 1
        BY FS_AddElement
      <3>. HIDE DEF Leaked
      <3>2. CASE x \in Leaked
        BY <1>1, <3>1, <3>2
      <3>3. CASE x \notin Leaked
        BY <1>1, <3>1, <3>3
      <3>4. QED BY <3>2, <3>3
    <2>4. IsFiniteSet(Owing \ {c}) /\ Cardinality(Owing \ {c}) = Cardinality(Owing) - 1
      BY <2>1, FS_RemoveElement DEF Paid
    <2>5. IsFiniteSet(Leaked') /\ Cardinality(Leaked') <= Cardinality(Leaked \cup {x})
      BY <2>2, <2>3, FS_Subset
    <2>6. IsFiniteSet(Owing') /\ Cardinality(Owing') <= Cardinality(Owing \ {c})
      BY <2>1, <2>4, FS_Subset DEF Paid
    <2>7. /\ Cardinality(Leaked') \in Nat /\ Cardinality(Owing') \in Nat
          /\ Cardinality(Leaked \cup {x}) \in Nat
      BY <2>3, <2>5, <2>6, FS_CardinalityType
    <2>8. QED BY <1>1, <2>3, <2>4, <2>5, <2>6, <2>7
  <1>4. CASE \E c : PassedOn(c)
    <2>1. PICK c : PassedOn(c)
      BY <1>4
    <2>2. IsFiniteSet(Owing \ {c}) /\ Cardinality(Owing \ {c}) = Cardinality(Owing) - 1
      BY <2>1, FS_RemoveElement DEF PassedOn
    <2>. DEFINE P == (Owing \ {c}) \cup {Supervisor}
    <2>3. IsFiniteSet(P) /\ Cardinality(P) <= Cardinality(Owing)
      <3>. DEFINE Q == Owing \ {c}
      <3>1. IsFiniteSet(Q) /\ Cardinality(Q) = Cardinality(Owing) - 1
        BY <2>2
      <3>. HIDE DEF Q
      <3>2. /\ IsFiniteSet(Q \cup {Supervisor})
            /\ Cardinality(Q \cup {Supervisor}) =
                 IF Supervisor \in Q THEN Cardinality(Q) ELSE Cardinality(Q) + 1
        BY <3>1, FS_AddElement
      <3>3. Cardinality(Q \cup {Supervisor}) <= Cardinality(Owing)
        <4>1. CASE Supervisor \in Q
          BY <1>1, <3>1, <3>2, <4>1
        <4>2. CASE Supervisor \notin Q
          BY <1>1, <3>1, <3>2, <4>2
        <4>3. QED BY <4>1, <4>2
      <3>4. QED BY <3>2, <3>3 DEF Q
    <2>4. IsFiniteSet(Leaked') /\ Cardinality(Leaked') <= Cardinality(Leaked)
      BY <2>1, FS_Subset DEF PassedOn
    <2>5. IsFiniteSet(Owing') /\ Cardinality(Owing') <= Cardinality(P)
      BY <2>1, <2>3, FS_Subset DEF PassedOn
    <2>6. /\ Cardinality(Leaked') \in Nat /\ Cardinality(Owing') \in Nat
          /\ Cardinality(P) \in Nat
      BY <2>3, <2>4, <2>5, FS_CardinalityType
    <2>. HIDE DEF P
    <2>7. QED BY <1>1, <2>3, <2>4, <2>5, <2>6
  <1>5. QED BY <1>2, <1>3, <1>4

-----------------------------------------------------------------------------
(* What the clients of the station may do to each other's state.           *)

Client == [reached : BOOLEAN, keyed : BOOLEAN, up : BOOLEAN, closed : BOOLEAN]

Links == {"new", "open", "shut"}

LEMMA NewClients ==
    ASSUME NEW i
    PROVE  Gone(i) \in Client /\ P2P(i)!Fresh \in Client /\ P2P(i)!Status = Client
  BY DEF Gone, Client, P2P!Fresh, P2P!Status

LEMMA ClientTypes ==
    ASSUME TypeOK, NEW i \in Ids, NEW d \in P2P(i)!Status, Becomes(i, d)
    PROVE  client' \in [Ids -> Client]
  <1>1. d \in Client /\ client \in [Ids -> Client]
    BY NewClients DEF TypeOK, Client
  <1>2. client' = [client EXCEPT ![i] = d]
    BY DEF Becomes
  <1>3. QED BY <1>1, <1>2

\* Close stops the client, and starts none.
LEMMA CloseStops ==
    ASSUME TypeOK, NEW i \in Ids, CloseClient(i)
    PROVE  /\ client' \in [Ids -> Client] /\ session' \in [Ids -> BOOLEAN]
           /\ link' \in [Ids -> Links] /\ link'[i] # "open"
           /\ \A j \in Ids : link[j] # "open" => link'[j] # "open"
  <1>1. PICK d \in P2P(i)!Status : Becomes(i, d)
    BY DEF CloseClient
  <1>2. client' \in [Ids -> Client]
    BY <1>1, ClientTypes
  <1>3. session' \in [Ids -> BOOLEAN]
    BY DEF CloseClient, TypeOK
  <1>4. link' = [link EXCEPT ![i] = IF @ = "open" THEN "shut" ELSE @] /\ link \in [Ids -> Links]
    BY DEF CloseClient, TypeOK, Links
  <1>5. QED BY <1>2, <1>3, <1>4 DEF Links

LEMMA SupervisionInit == Init => SupervisionInv
  <1>. SUFFICES ASSUME Init PROVE SupervisionInv
    OBVIOUS
  <1>. USE SupervisionAssumption DEF Init
  <1>1. /\ client \in [Ids -> Client]
        /\ link \in [Ids -> Links] /\ \A i \in Ids : link[i] = "shut"
    BY NewClients DEF Links
  <1>2. TypeOK
    <2>1. ends \in 0 .. MaxEnds /\ reboots \in 0 .. MaxReboots
      OBVIOUS
    <2>2. pc \in [Callers -> {"load", "key", "enter", "connect", "wait conn", "wait enc", "clear",
                             "idle", "take", "close", "done"}]
      OBVIOUS
    <2>3. \A c \in Callers : pc[c] \in {"connect", "wait conn", "wait enc", "clear"}
                               => mine[c] \in Ids
      OBVIOUS
    <2>4. QED BY <1>1, <2>1, <2>2, <2>3, Zenon DEF TypeOK, Client, Links
  <1>3. ClientsOwned
    BY DEF ClientsOwned, Waiting, Callers
  <1>4. Leaked = {} /\ Owing \subseteq Loaders
    BY <1>1 DEF Leaked, Owing, Displaced, Waiting, Callers
  <1>5. IsFiniteSet(Leaked) /\ Cardinality(Leaked) = 0
    BY <1>4, FS_EmptySet
  <1>6. IsFiniteSet(Owing) /\ Cardinality(Owing) <= Cardinality(Loaders)
    BY <1>4, FS_Subset
  <1>7. Cardinality(Owing) \in Nat /\ Cardinality(Loaders) \in Nat
    BY <1>6, FS_CardinalityType
  <1>8. Account
    BY <1>5, <1>6, <1>7 DEF Account
  <1>9. QED BY <1>2, <1>3, <1>8 DEF SupervisionInv

-----------------------------------------------------------------------------
(* One lemma for each thing the account may be disturbed by.               *)

\* Nobody loses a client, or has to pay for one, while no client is opened.
LEMMA SamePool ==
    ASSUME UNCHANGED <<station, callers, link>>
    PROVE  (ClientsOwned => ClientsOwned') /\ NothingLost
  <1>1. /\ p2pClient' = p2pClient /\ pc' = pc /\ mine' = mine /\ link' = link
    BY DEF station, callers
  <1>2. QED BY <1>1 DEF ClientsOwned, NothingLost, Leaked, Held, Owing, Displaced

\* A step of the clients or the station: nobody's client changes hands.
LEMMA ClientSteps ==
    ASSUME SupervisionInv, NEW i \in Ids,
           Answer(i) \/ AgreeOnKey(i) \/ End(i) \/ Reboot(i)
    PROVE  TypeOK' /\ ClientsOwned' /\ NothingLost
  <1>. USE DEF SupervisionInv
  <1>1. UNCHANGED <<station, callers, withKey, link>>
    BY DEF Answer, AgreeOnKey, End, Reboot
  <1>2. ClientsOwned' /\ NothingLost
    BY <1>1, SamePool
  <1>3. client' \in [Ids -> Client] /\ session' \in [Ids -> BOOLEAN]
    <2>1. CASE Reboot(i)
      BY <2>1 DEF Reboot, TypeOK, Client
    <2>2. CASE Answer(i) \/ AgreeOnKey(i) \/ End(i)
      <3>1. PICK d \in P2P(i)!Status : Becomes(i, d)
        BY <2>2 DEF Answer, AgreeOnKey, End
      <3>2. client' \in [Ids -> Client]
        BY <3>1, ClientTypes
      <3>3. session' \in [Ids -> BOOLEAN]
        BY <2>2 DEF Answer, AgreeOnKey, End, TypeOK
      <3>4. QED BY <3>2, <3>3
    <2>3. QED BY <2>1, <2>2
  <1>4. ends' \in 0 .. MaxEnds /\ reboots' \in 0 .. MaxReboots
    <2>1. ends \in 0 .. MaxEnds /\ reboots \in 0 .. MaxReboots
      BY Zenon DEF TypeOK
    <2>2. /\ ends' = ends \/ (ends < MaxEnds /\ ends' = ends + 1)
          /\ reboots' = reboots \/ (reboots < MaxReboots /\ reboots' = reboots + 1)
      BY DEF Answer, AgreeOnKey, End, Reboot, faults
    <2>3. QED BY <2>1, <2>2, SupervisionAssumption
  <1>5. TypeOK'
    BY <1>1, <1>3, <1>4, Zenon DEF TypeOK, station, callers, Client
  <1>6. QED BY <1>2, <1>5

\* What a caller's step leaves to show of the types.
LEMMA CallerTypes ==
    ASSUME TypeOK, UNCHANGED faults, NEW c \in Callers, NEW label,
           label \in {"load", "key", "enter", "connect", "wait conn", "wait enc", "clear",
                      "idle", "take", "close", "done"},
           Goto(c, label),
           mine' \in [Callers -> Ids \cup {None}],
           \A b \in Callers \ {c} : mine'[b] = mine[b],
           label \in Waiting => mine'[c] \in Ids,
           registered' \in BOOLEAN, dskKey' \in BOOLEAN, p2pClient' \in Ids \cup {None},
           client' \in [Ids -> Client], withKey' \in [Ids -> BOOLEAN],
           session' \in [Ids -> BOOLEAN], link' \in [Ids -> Links],
           arg' \in [Callers -> BOOLEAN]
    PROVE  TypeOK'
  <1>1. pc' \in [Callers -> {"load", "key", "enter", "connect", "wait conn", "wait enc", "clear",
                             "idle", "take", "close", "done"}]
    BY DEF TypeOK, Goto
  <1>2. \A b \in Callers : pc'[b] \in {"connect", "wait conn", "wait enc", "clear"}
                             => mine'[b] \in Ids
    BY DEF TypeOK, Goto, Waiting
  <1>3. (ends \in 0 .. MaxEnds)' /\ (reboots \in 0 .. MaxReboots)'
    <2>1. ends' = ends /\ reboots' = reboots
      BY DEF faults
    <2>2. QED BY <2>1, Zenon DEF TypeOK
  <1>4. QED BY <1>1, <1>2, <1>3, Zenon DEF TypeOK, Client, Links

\* And of who holds what.
LEMMA CallerOwns ==
    ASSUME TypeOK, ClientsOwned, NEW c \in Callers, NEW label, Goto(c, label),
           \A b \in Callers \ {c} : mine'[b] = mine[b],
           \A b \in Callers \ {c} : pc[b] \in Waiting =>
               /\ link[mine[b]] # "open" => link'[mine[b]] # "open"
               /\ label \in Waiting => mine[b] # mine'[c],
           label \in {"connect", "clear"} => link'[mine'[c]] # "open",
           label \notin Waiting \cup {"close"} => mine'[c] = None,
           c \in Loaders => label \notin {"idle", "take", "close"},
           c = Supervisor => label # "done"
    PROVE  ClientsOwned'
  <1>1. pc'[c] = label /\ \A b \in Callers \ {c} : pc'[b] = pc[b]
    BY DEF Goto, TypeOK
  <1>2. \A b \in Callers : pc'[b] \in {"connect", "clear"} => link'[mine'[b]] # "open"
    <2>1. ASSUME NEW b \in Callers \ {c}, pc'[b] \in {"connect", "clear"}
          PROVE  link'[mine'[b]] # "open"
      <3>1. pc[b] \in {"connect", "clear"} /\ mine'[b] = mine[b]
        BY <1>1, <2>1
      <3>2. link[mine[b]] # "open" /\ pc[b] \in Waiting
        BY <3>1 DEF ClientsOwned, Waiting
      <3>3. QED BY <3>1, <3>2
    <2>2. pc'[c] \in {"connect", "clear"} => link'[mine'[c]] # "open"
      BY <1>1
    <2>3. QED BY <2>1, <2>2
  <1>3. \A a, b \in Callers : a # b /\ pc'[a] \in Waiting /\ pc'[b] \in Waiting
                             => mine'[a] # mine'[b]
    BY <1>1 DEF ClientsOwned
  <1>4. \A b \in Callers : pc'[b] \notin Waiting \cup {"close"} => mine'[b] = None
    BY <1>1 DEF ClientsOwned
  <1>5. (\A l \in Loaders : pc'[l] \notin {"idle", "take", "close"}) /\ pc'[Supervisor] # "done"
    BY <1>1 DEF ClientsOwned, Callers
  <1>6. QED BY <1>2, <1>3, <1>4, <1>5 DEF ClientsOwned

LEMMA LoaderSteps ==
    ASSUME SupervisionInv, NEW l \in Loaders, LoadStations(l) \/ GetKey(l)
    PROVE  TypeOK' /\ ClientsOwned' /\ NothingLost
  <1>. USE DEF SupervisionInv
  <1>1. l \in Callers /\ l # Supervisor
    BY SupervisionAssumption DEF Callers
  <1>2. PICK label \in {"key", "done", "enter"} : Goto(l, label)
    BY DEF LoadStations, GetKey
  <1>3. /\ UNCHANGED <<p2pClient, dskKey, pool, mine, faults>>
        /\ pc[l] \in {"load", "key"}
    BY DEF LoadStations, GetKey, station
  <1>4. registered' \in BOOLEAN /\ arg' \in [Callers -> BOOLEAN]
    BY <1>1 DEF TypeOK, LoadStations, GetKey, station
  <1>5. TypeOK'
    <2>1. label \notin Waiting
      BY DEF Waiting
    <2>2. mine' \in [Callers -> Ids \cup {None}] /\ client' \in [Ids -> Client]
      BY <1>3 DEF TypeOK, pool, Client
    <2>3. dskKey' \in BOOLEAN /\ p2pClient' \in Ids \cup {None}
      BY <1>3, Zenon DEF TypeOK
    <2>4. /\ withKey' \in [Ids -> BOOLEAN] /\ session' \in [Ids -> BOOLEAN]
          /\ link' \in [Ids -> Links]
      BY <1>3 DEF TypeOK, pool, Links
    <2>5. QED BY <1>1, <1>2, <1>3, <1>4, <2>1, <2>2, <2>3, <2>4, CallerTypes
  <1>6. ClientsOwned'
    BY <1>1, <1>2, <1>3 DEF ClientsOwned, TypeOK, Waiting, pool, Goto, Callers
  <1>7. Leaked' = Leaked
    BY <1>3 DEF Leaked, Held, pool
  <1>8. Owing' \subseteq Owing
    BY <1>1, <1>2, <1>3 DEF Owing, Displaced, TypeOK, Goto, Callers, Waiting
  <1>9. QED BY <1>5, <1>6, <1>7, <1>8 DEF NothingLost

LEMMA TimeOutStep ==
    ASSUME SupervisionInv, NEW c \in Callers, TimedOut(c)
    PROVE  TypeOK' /\ ClientsOwned' /\ NothingLost
  <1>. USE DEF SupervisionInv
  <1>1. pc[c] \in Waiting /\ mine[c] \in Ids
    BY DEF TimedOut, TypeOK, Waiting
  <1>2. CloseClient(mine[c])
    BY DEF TimedOut
  <1>3. /\ client' \in [Ids -> Client] /\ session' \in [Ids -> BOOLEAN]
        /\ link' \in [Ids -> Links] /\ link'[mine[c]] # "open"
        /\ \A j \in Ids : link[j] # "open" => link'[j] # "open"
    BY <1>1, <1>2, CloseStops
  <1>5. Goto(c, "clear") /\ UNCHANGED <<station, withKey, mine, arg, faults>>
    BY DEF TimedOut
  <1>6. TypeOK'
    <2>1. /\ mine' \in [Callers -> Ids \cup {None}] /\ withKey' \in [Ids -> BOOLEAN]
          /\ arg' \in [Callers -> BOOLEAN]
      BY <1>5 DEF TypeOK
    <2>2. (registered \in BOOLEAN /\ dskKey \in BOOLEAN /\ p2pClient \in Ids \cup {None})'
      <3>1. registered' = registered /\ dskKey' = dskKey /\ p2pClient' = p2pClient
        BY <1>5 DEF station
      <3>2. QED BY <3>1, Zenon DEF TypeOK
    <2>3. QED BY <1>1, <1>3, <1>5, <2>1, <2>2, CallerTypes
  <1>7. ClientsOwned'
    BY <1>1, <1>3, <1>5 DEF ClientsOwned, TypeOK, Waiting, Goto, Callers
  <1>8. Leaked' \subseteq Leaked
    BY <1>3, <1>5 DEF Leaked, Held, station
  <1>9. Owing' \subseteq Owing
    BY <1>1, <1>5 DEF Owing, Displaced, TypeOK, Goto, Callers, Waiting, station
  <1>10. QED BY <1>6, <1>7, <1>8, <1>9 DEF NothingLost

LEMMA ConnectStep ==
    ASSUME SupervisionInv, NEW c \in Callers, Open(c) \/ OpenFails(c)
    PROVE  TypeOK' /\ ClientsOwned' /\ NothingLost
  <1>. USE DEF SupervisionInv
  <1>1. /\ pc[c] = "connect" /\ mine[c] \in Ids /\ link[mine[c]] # "open"
        /\ UNCHANGED <<station, client, withKey, session, mine, arg, faults>>
    BY DEF Open, OpenFails, pool, TypeOK, ClientsOwned
  <1>2. PICK label \in {"wait conn", "clear"} :
            /\ Goto(c, label)
            /\ label = "wait conn" => link' = [link EXCEPT ![mine[c]] = "open"]
            /\ label = "clear" => link' = link
    BY DEF Open, OpenFails, pool
  <1>3. /\ link' \in [Ids -> Links]
        /\ \A j \in Ids \ {mine[c]} : link'[j] = link[j]
        /\ label = "clear" => link'[mine[c]] # "open"
    BY <1>1, <1>2 DEF TypeOK, Links
  <1>4. TypeOK'
    <2>1. /\ mine' \in [Callers -> Ids \cup {None}] /\ withKey' \in [Ids -> BOOLEAN]
          /\ arg' \in [Callers -> BOOLEAN] /\ client' \in [Ids -> Client]
          /\ session' \in [Ids -> BOOLEAN]
      BY <1>1 DEF TypeOK, Client
    <2>2. (registered \in BOOLEAN /\ dskKey \in BOOLEAN /\ p2pClient \in Ids \cup {None})'
      <3>1. registered' = registered /\ dskKey' = dskKey /\ p2pClient' = p2pClient
        BY <1>1 DEF station
      <3>2. QED BY <3>1, Zenon DEF TypeOK
    <2>3. QED BY <1>1, <1>2, <1>3, <2>1, <2>2, CallerTypes
  <1>5. ClientsOwned'
    <2>1. \A b \in Callers \ {c} :
              pc[b] \in Waiting => mine[b] \in Ids /\ mine[b] # mine[c]
      BY <1>1 DEF ClientsOwned, TypeOK, Waiting
    <2>2. c = Supervisor \/ c \in Loaders
      BY DEF Callers
    <2>3. QED BY <1>1, <1>2, <1>3, <2>1, <2>2, CallerOwns DEF Waiting
  <1>6. Leaked' \subseteq Leaked
    BY <1>1, <1>3 DEF Leaked, Held, station
  <1>7. Owing' \subseteq Owing
    BY <1>1, <1>2 DEF Owing, Displaced, TypeOK, Goto, Callers, Waiting, station
  <1>8. QED BY <1>4, <1>5, <1>6, <1>7 DEF NothingLost

LEMMA EnterStep ==
    ASSUME SupervisionInv, NEW c \in Callers, Enter(c)
    PROVE  TypeOK' /\ ClientsOwned' /\ NothingLost
  <1>. USE SupervisionAssumption DEF SupervisionInv
  <1>1. pc[c] = "enter" /\ mine[c] = None /\ UNCHANGED <<arg, faults, registered>>
    BY DEF Enter, ClientsOwned, Waiting, station
  <1>2. CASE p2pClient # None
    <2>1. /\ Goto(c, Rest(c)) /\ UNCHANGED <<station, pool>>
          /\ mine' = [mine EXCEPT ![c] = None]
      BY <1>2 DEF Enter, Return
    <2>2. mine' = mine
      BY <1>1, <2>1 DEF TypeOK
    <2>3. Rest(c) \in {"idle", "done"} /\ (c \in Loaders <=> Rest(c) = "done")
      BY DEF Rest, Callers
    <2>4. TypeOK'
      <3>1. /\ mine' \in [Callers -> Ids \cup {None}] /\ client' \in [Ids -> Client]
            /\ withKey' \in [Ids -> BOOLEAN] /\ session' \in [Ids -> BOOLEAN]
            /\ link' \in [Ids -> Links] /\ arg' \in [Callers -> BOOLEAN]
        BY <1>1, <2>1, <2>2 DEF TypeOK, pool, Client, Links
      <3>2. (registered \in BOOLEAN /\ dskKey \in BOOLEAN /\ p2pClient \in Ids \cup {None})'
        <4>1. registered' = registered /\ dskKey' = dskKey /\ p2pClient' = p2pClient
          BY <2>1 DEF station
        <4>2. QED BY <4>1, Zenon DEF TypeOK
      <3>3. Rest(c) \notin Waiting
        BY <2>3 DEF Waiting
      <3>4. \A b \in Callers \ {c} : mine'[b] = mine[b]
        BY <2>2
      <3>5. QED BY <1>1, <2>1, <2>3, <3>1, <3>2, <3>3, <3>4, CallerTypes
    <2>5. ClientsOwned'
      <3>1. link' = link /\ mine'[c] = None /\ Rest(c) \notin Waiting
        BY <1>1, <2>1, <2>2, <2>3 DEF pool, Waiting
      <3>2. c = Supervisor => Rest(c) # "done"
        BY <2>3
      <3>3. QED BY <2>1, <2>2, <2>3, <3>1, <3>2, CallerOwns DEF Waiting
    <2>6. Leaked' = Leaked
      BY <2>1, <2>2 DEF Leaked, Held, station, pool
    <2>7. Owing' \subseteq Owing
      BY <1>1, <2>1, <2>2, <2>3 DEF Owing, Displaced, TypeOK, Goto, Callers, Waiting, station
    <2>8. QED BY <2>4, <2>5, <2>6, <2>7 DEF NothingLost
  <1>3. CASE p2pClient = None
    <2>1. PICK i \in Free :
              /\ p2pClient' = i
              /\ client' = [client EXCEPT ![i] = P2P(i)!Fresh]
              /\ withKey' = [withKey EXCEPT ![i] = arg[c]]
              /\ session' = [session EXCEPT ![i] = FALSE]
              /\ link' = [link EXCEPT ![i] = "new"]
              /\ mine' = [mine EXCEPT ![c] = i]
      BY <1>3 DEF Enter
    <2>2. dskKey' = arg[c] /\ Goto(c, "connect")
      BY <1>3 DEF Enter
    <2>3. i \in Ids /\ i # None /\ \A b \in Callers : mine[b] # i
      BY <2>1 DEF Free, Held
    <2>4. client' \in [Ids -> Client]
      BY <2>1, <2>3, NewClients DEF TypeOK, Client
    <2>5. /\ link' \in [Ids -> Links] /\ link'[i] = "new"
          /\ \A j \in Ids \ {i} : link'[j] = link[j]
      BY <2>1, <2>3 DEF TypeOK, Links
    <2>6. TypeOK'
      <3>1. /\ mine' \in [Callers -> Ids \cup {None}] /\ mine'[c] = i
            /\ \A b \in Callers \ {c} : mine'[b] = mine[b]
        BY <2>1, <2>3 DEF TypeOK
      <3>2. withKey' \in [Ids -> BOOLEAN] /\ session' \in [Ids -> BOOLEAN]
        BY <2>1, <2>3 DEF TypeOK
      <3>3. registered' \in BOOLEAN /\ dskKey' \in BOOLEAN /\ arg' \in [Callers -> BOOLEAN]
        <4>1. arg \in [Callers -> BOOLEAN] /\ arg' = arg /\ registered' = registered
          BY <1>1 DEF TypeOK
        <4>2. registered \in BOOLEAN
          BY Zenon DEF TypeOK
        <4>3. QED BY <2>2, <4>1, <4>2, Zenon
      <3>4. QED BY <1>1, <2>1, <2>2, <2>3, <2>4, <2>5, <3>1, <3>2, <3>3, CallerTypes
           DEF Waiting
    <2>7. ClientsOwned'
      <3>1. mine'[c] = i /\ \A b \in Callers \ {c} : mine'[b] = mine[b]
        BY <2>1 DEF TypeOK
      <3>2. \A b \in Callers \ {c} : pc[b] \in Waiting => mine[b] \in Ids /\ mine[b] # i
        BY <2>3 DEF TypeOK, Waiting
      <3>3. QED BY <2>2, <2>5, <3>1, <3>2, CallerOwns DEF Waiting
    <2>8. Leaked' \subseteq Leaked
      BY <1>1, <1>3, <2>1, <2>3, <2>5 DEF Leaked, Held, TypeOK
    <2>9. Owing' \subseteq Owing
      BY <1>1, <1>3, <2>1, <2>2, <2>3
         DEF Owing, Displaced, TypeOK, Goto, Callers, Waiting
    <2>10. QED BY <2>6, <2>7, <2>8, <2>9 DEF NothingLost
  <1>4. QED BY <1>2, <1>3

\* The station and its clients are left as they are, and so are the types.
LEMMA SameStation ==
    ASSUME TypeOK, UNCHANGED <<station, pool>>
    PROVE  /\ registered' \in BOOLEAN /\ dskKey' \in BOOLEAN /\ p2pClient' \in Ids \cup {None}
           /\ client' \in [Ids -> Client] /\ withKey' \in [Ids -> BOOLEAN]
           /\ session' \in [Ids -> BOOLEAN] /\ link' \in [Ids -> Links]
  <1>1. /\ registered' = registered /\ dskKey' = dskKey /\ p2pClient' = p2pClient
        /\ client' = client /\ withKey' = withKey /\ session' = session
        /\ link' = link
    BY DEF station, pool
  <1>2. QED BY <1>1, Zenon DEF TypeOK, Client, Links

LEMMA ReleasedStep ==
    ASSUME SupervisionInv, NEW c \in Callers, Released(c)
    PROVE  TypeOK' /\ ClientsOwned' /\ (NothingLost \/ Paid(c))
  <1>. USE SupervisionAssumption DEF SupervisionInv
  <1>1. /\ pc[c] \in {"wait conn", "wait enc"} /\ mine[c] \in Ids
        /\ UNCHANGED <<station, pool, arg, faults>>
    BY DEF Released, TypeOK
  <1>2. arg' \in [Callers -> BOOLEAN]
    BY <1>1 DEF TypeOK
  <1>3. CASE Goto(c, "wait enc") /\ UNCHANGED mine
    <2>1. mine' \in [Callers -> Ids \cup {None}] /\ mine'[c] \in Ids
      BY <1>1, <1>3 DEF TypeOK
    <2>2. TypeOK'
      BY <1>1, <1>2, <1>3, <2>1, CallerTypes, SameStation
    <2>3. ClientsOwned'
      BY <1>1, <1>3 DEF ClientsOwned, TypeOK, Waiting, Goto, Callers, pool
    <2>4. Leaked' = Leaked
      BY <1>1, <1>3 DEF Leaked, Held, station, pool
    <2>5. Owing' \subseteq Owing
      BY <1>1, <1>3 DEF Owing, Displaced, TypeOK, Goto, Callers, Waiting, station
    <2>6. QED BY <2>2, <2>3, <2>4, <2>5 DEF NothingLost
  <1>4. CASE Goto(c, Rest(c)) /\ mine' = [mine EXCEPT ![c] = None]
    <2>1. /\ Rest(c) \in {"idle", "done"}
          /\ c \in Loaders <=> Rest(c) = "done"
          /\ Rest(c) \notin Waiting
      BY DEF Rest, Callers, Waiting
    <2>2. /\ mine' \in [Callers -> Ids \cup {None}] /\ mine'[c] = None
          /\ \A b \in Callers \ {c} : mine'[b] = mine[b]
      BY <1>4 DEF TypeOK
    <2>3. TypeOK'
      BY <1>1, <1>2, <1>4, <2>1, <2>2, CallerTypes, SameStation
    <2>4. ClientsOwned'
      BY <1>1, <1>4, <2>1, <2>2 DEF ClientsOwned, TypeOK, Waiting, Goto, Callers, pool
    <2>5. Leaked' \subseteq Leaked \cup {mine[c]}
      BY <1>1, <2>2 DEF Leaked, Held, station, pool
    <2>6. Owing' \subseteq Owing \ {c}
      BY <1>1, <1>4, <2>1, <2>2 DEF Owing, Displaced, TypeOK, Goto, Callers, Waiting, station
    <2>7. CASE c \in Owing
      BY <2>3, <2>4, <2>5, <2>6, <2>7 DEF Paid
    <2>8. CASE c \notin Owing
      <3>1. c = Supervisor /\ mine[c] = p2pClient
        BY <1>1, <2>8 DEF Owing, Displaced, Waiting, Callers
      <3>2. Leaked' \subseteq Leaked
        BY <1>1, <2>2, <3>1 DEF Leaked, Held, station, pool
      <3>3. QED BY <2>3, <2>4, <2>6, <3>2 DEF NothingLost
    <2>9. QED BY <2>7, <2>8
  <1>5. QED BY <1>3, <1>4 DEF Released, Return

LEMMA ClearStep ==
    ASSUME SupervisionInv, NEW c \in Callers, Clear(c)
    PROVE  TypeOK' /\ ClientsOwned' /\ (NothingLost \/ Paid(c) \/ PassedOn(c))
  <1>. USE SupervisionAssumption DEF SupervisionInv
  <1>1. /\ pc[c] = "clear" /\ mine[c] \in Ids /\ link[mine[c]] # "open"
        /\ p2pClient' = None /\ UNCHANGED <<registered, dskKey, pool, arg, faults>>
    BY DEF Clear, TypeOK, ClientsOwned
  <1>2. Goto(c, Rest(c)) /\ mine' = [mine EXCEPT ![c] = None]
    BY DEF Clear, Return
  <1>3. /\ Rest(c) \in {"idle", "done"}
        /\ c \in Loaders <=> Rest(c) = "done"
        /\ Rest(c) \notin Waiting
    BY DEF Rest, Callers, Waiting
  <1>4. /\ mine' \in [Callers -> Ids \cup {None}] /\ mine'[c] = None
        /\ \A b \in Callers \ {c} : mine'[b] = mine[b]
    BY <1>2 DEF TypeOK
  <1>5. TypeOK'
    <2>1. /\ arg' \in [Callers -> BOOLEAN] /\ withKey' \in [Ids -> BOOLEAN]
          /\ session' \in [Ids -> BOOLEAN] /\ client' \in [Ids -> Client]
          /\ link' \in [Ids -> Links]
      BY <1>1 DEF TypeOK, pool, Client, Links
    <2>2. registered' \in BOOLEAN /\ dskKey' \in BOOLEAN
      <3>1. registered' = registered /\ dskKey' = dskKey
        BY <1>1
      <3>2. QED BY <3>1, Zenon DEF TypeOK
    <2>3. QED BY <1>1, <1>2, <1>3, <1>4, <2>1, <2>2, CallerTypes
  <1>6. ClientsOwned'
    BY <1>1, <1>2, <1>3, <1>4 DEF ClientsOwned, TypeOK, Waiting, Goto, Callers, pool
  <1>7. Leaked' \subseteq Leaked \cup {p2pClient}
    BY <1>1, <1>4 DEF Leaked, Held, pool
  <1>8. CASE c = Supervisor
    <2>1. Owing' \subseteq Owing \ {c}
      BY <1>1, <1>2, <1>3, <1>8 DEF Owing, Displaced, TypeOK, Goto, Callers
    <2>2. CASE mine[c] = p2pClient
      <3>1. Leaked' \subseteq Leaked
        BY <1>1, <1>4, <2>2 DEF Leaked, Held, pool
      <3>2. QED BY <1>5, <1>6, <2>1, <3>1 DEF NothingLost
    <2>3. CASE mine[c] # p2pClient
      <3>1. c \in Owing
        BY <1>1, <1>8, <2>3 DEF Owing, Displaced, Waiting
      <3>2. QED BY <1>5, <1>6, <1>7, <2>1, <3>1 DEF Paid
    <2>4. QED BY <2>2, <2>3
  <1>9. CASE c # Supervisor
    <2>1. c \in Loaders /\ c \in Owing /\ pc'[c] = "done" /\ pc'[Supervisor] = pc[Supervisor]
      BY <1>1, <1>2, <1>3, <1>9 DEF Owing, Callers, Goto, TypeOK
    <2>2. CASE pc[Supervisor] \in Waiting /\ mine[Supervisor] = p2pClient
      <3>1. Leaked' \subseteq Leaked
        BY <1>1, <1>4, <1>9, <2>2 DEF Leaked, Held, pool, Callers
      <3>2. Owing' \subseteq (Owing \ {c}) \cup {Supervisor}
        BY <1>2, <2>1 DEF Owing, Goto, TypeOK, Callers
      <3>3. QED BY <1>5, <1>6, <2>1, <3>1, <3>2 DEF PassedOn
    <2>3. CASE ~(pc[Supervisor] \in Waiting /\ mine[Supervisor] = p2pClient)
      <3>1. Owing' \subseteq Owing \ {c}
        BY <1>1, <1>2, <1>9, <2>1, <2>3 DEF Owing, Displaced, Goto, TypeOK, Callers
      <3>2. QED BY <1>5, <1>6, <1>7, <2>1, <3>1 DEF Paid
    <2>4. QED BY <2>2, <2>3
  <1>10. QED BY <1>8, <1>9

LEMMA SupervisorSteps ==
    ASSUME SupervisionInv, FindDown \/ TakeOld \/ CloseOld
    PROVE  TypeOK' /\ ClientsOwned' /\ NothingLost
  <1>. USE SupervisionAssumption DEF SupervisionInv
  <1>1. Supervisor \in Callers /\ arg \in [Callers -> BOOLEAN]
    BY DEF Callers, TypeOK
  <1>2. CASE FindDown
    <2>1. /\ Goto(Supervisor, "take") /\ pc[Supervisor] = "idle"
          /\ UNCHANGED <<station, pool, mine, arg, faults>>
      BY <1>2 DEF FindDown
    <2>2. mine' \in [Callers -> Ids \cup {None}] /\ arg' \in [Callers -> BOOLEAN]
      BY <1>1, <2>1 DEF TypeOK
    <2>3. TypeOK'
      BY <1>1, <2>1, <2>2, CallerTypes, SameStation DEF Waiting
    <2>4. ClientsOwned'
      BY <2>1 DEF ClientsOwned, TypeOK, Waiting, Goto, Callers, pool
    <2>5. Leaked' = Leaked
      BY <2>1 DEF Leaked, Held, station, pool
    <2>6. Owing' \subseteq Owing
      BY <2>1 DEF Owing, Displaced, TypeOK, Goto, Callers, Waiting
    <2>7. QED BY <2>3, <2>4, <2>5, <2>6 DEF NothingLost
  <1>3. CASE TakeOld
    <2>1. /\ Goto(Supervisor, "close") /\ pc[Supervisor] = "take"
          /\ mine' = [mine EXCEPT ![Supervisor] = p2pClient] /\ p2pClient' = None
          /\ UNCHANGED <<registered, dskKey, pool, arg, faults>>
      BY <1>3 DEF TakeOld
    <2>2. /\ mine' \in [Callers -> Ids \cup {None}] /\ mine'[Supervisor] = p2pClient
          /\ \A b \in Callers \ {Supervisor} : mine'[b] = mine[b]
      BY <1>1, <2>1 DEF TypeOK
    <2>3. TypeOK'
      <3>1. /\ arg' \in [Callers -> BOOLEAN] /\ withKey' \in [Ids -> BOOLEAN]
            /\ session' \in [Ids -> BOOLEAN] /\ client' \in [Ids -> Client]
            /\ link' \in [Ids -> Links]
        BY <2>1 DEF TypeOK, pool, Client, Links
      <3>2. registered' \in BOOLEAN /\ dskKey' \in BOOLEAN
        <4>1. registered' = registered /\ dskKey' = dskKey
          BY <2>1
        <4>2. QED BY <4>1, Zenon DEF TypeOK
      <3>3. QED BY <1>1, <2>1, <2>2, <3>1, <3>2, CallerTypes DEF Waiting
    <2>4. ClientsOwned'
      BY <2>1, <2>2 DEF ClientsOwned, TypeOK, Waiting, Goto, Callers, pool
    <2>5. mine[Supervisor] = None
      BY <1>1, <2>1 DEF ClientsOwned, Waiting
    <2>6. Leaked' \subseteq Leaked
      BY <1>1, <2>1, <2>2, <2>5 DEF Leaked, Held, pool
    <2>7. Owing' \subseteq Owing
      BY <2>1 DEF Owing, Displaced, TypeOK, Goto, Callers, Waiting
    <2>8. QED BY <2>3, <2>4, <2>6, <2>7 DEF NothingLost
  <1>4. CASE CloseOld
    <2>1. /\ Goto(Supervisor, "enter") /\ pc[Supervisor] = "close"
          /\ mine' = [mine EXCEPT ![Supervisor] = None]
          /\ arg' = [arg EXCEPT ![Supervisor] = dskKey]
          /\ UNCHANGED <<station, withKey, faults>>
      BY <1>4 DEF CloseOld
    <2>2. /\ client' \in [Ids -> Client] /\ session' \in [Ids -> BOOLEAN]
          /\ link' \in [Ids -> Links]
          /\ mine[Supervisor] \in Ids => link'[mine[Supervisor]] # "open"
          /\ \A j \in Ids : link[j] # "open" => link'[j] # "open"
      <3>1. CASE mine[Supervisor] = None
        BY <1>4, <3>1, SupervisionAssumption DEF CloseOld, TypeOK, Client, Links
      <3>2. CASE mine[Supervisor] # None
        <4>1. mine[Supervisor] \in Ids
          BY <1>1, <3>2 DEF TypeOK
        <4>2. CloseClient(mine[Supervisor])
          BY <1>4, <3>2 DEF CloseOld
        <4>3. QED BY <4>1, <4>2, CloseStops
      <3>3. QED BY <3>1, <3>2
    <2>3. /\ mine' \in [Callers -> Ids \cup {None}] /\ mine'[Supervisor] = None
          /\ \A b \in Callers \ {Supervisor} : mine'[b] = mine[b]
      BY <1>1, <2>1 DEF TypeOK
    <2>4. TypeOK'
      <3>1. withKey' \in [Ids -> BOOLEAN]
        BY <2>1 DEF TypeOK
      <3>2. registered' \in BOOLEAN /\ dskKey \in BOOLEAN /\ dskKey' \in BOOLEAN
            /\ p2pClient' \in Ids \cup {None}
        <4>1. registered' = registered /\ dskKey' = dskKey /\ p2pClient' = p2pClient
          BY <2>1 DEF station
        <4>2. QED BY <4>1, Zenon DEF TypeOK
      <3>3. arg' \in [Callers -> BOOLEAN]
        BY <1>1, <2>1, <3>2
      <3>4. QED BY <1>1, <2>1, <2>2, <2>3, <3>1, <3>2, <3>3, CallerTypes DEF Waiting
    <2>5. ClientsOwned'
      BY <2>1, <2>2, <2>3 DEF ClientsOwned, TypeOK, Waiting, Goto, Callers
    <2>6. Leaked' \subseteq Leaked
      BY <2>1, <2>2, <2>3 DEF Leaked, Held, station
    <2>7. Owing' \subseteq Owing
      BY <2>1 DEF Owing, Displaced, TypeOK, Goto, Callers, Waiting
    <2>8. QED BY <2>4, <2>5, <2>6, <2>7 DEF NothingLost
  <1>5. QED BY <1>2, <1>3, <1>4

LEMMA SupervisionStep == SupervisionInv /\ [Next]_vars => SupervisionInv'
  <1>. SUFFICES ASSUME SupervisionInv, [Next]_vars PROVE SupervisionInv'
    OBVIOUS
  <1>1. CASE UNCHANGED vars
    <2>1. /\ registered' = registered /\ dskKey' = dskKey /\ p2pClient' = p2pClient
          /\ client' = client /\ withKey' = withKey /\ session' = session
          /\ pc' = pc /\ mine' = mine /\ arg' = arg /\ ends' = ends /\ reboots' = reboots
          /\ link' = link
      BY <1>1 DEF vars, station, pool, callers, faults
    <2>2. TypeOK' /\ ClientsOwned'
      BY <2>1, Zenon DEF SupervisionInv, TypeOK, ClientsOwned
    <2>3. NothingLost
      BY <2>1 DEF NothingLost, Leaked, Held, Owing, Displaced
    <2>4. QED BY <2>2, <2>3, AccountKept DEF SupervisionInv
  <1>2. ASSUME NEW c \in Callers, Enter(c) \/ Open(c) \/ OpenFails(c) \/ Released(c)
                                 \/ TimedOut(c) \/ Clear(c)
        PROVE  SupervisionInv'
    <2>1. TypeOK' /\ ClientsOwned' /\ (NothingLost \/ Paid(c) \/ PassedOn(c))
      BY <1>2, EnterStep, ConnectStep, ReleasedStep, TimeOutStep, ClearStep
    <2>2. QED BY <2>1, AccountKept DEF SupervisionInv
  <1>3. ASSUME NEW l \in Loaders, LoadStations(l) \/ GetKey(l)
        PROVE  SupervisionInv'
    BY <1>3, LoaderSteps, AccountKept DEF SupervisionInv
  <1>4. ASSUME FindDown \/ TakeOld \/ CloseOld
        PROVE  SupervisionInv'
    BY <1>4, SupervisorSteps, AccountKept DEF SupervisionInv
  <1>5. ASSUME NEW i \in Ids, Answer(i) \/ AgreeOnKey(i) \/ End(i) \/ Reboot(i)
        PROVE  SupervisionInv'
    BY <1>5, ClientSteps, AccountKept DEF SupervisionInv
  <1>6. QED BY <1>1, <1>2, <1>3, <1>4, <1>5 DEF Next

LEMMA Supervision == Spec => []SupervisionInv
  BY SupervisionInit, SupervisionStep, PTL DEF Spec

-----------------------------------------------------------------------------
(* The theorems.                                                           *)

\* The station, its clients and its callers have their types; in particular a
\* caller that waits in ConnectWithAPI holds a client.
THEOREM TypeCorrect == Spec => []TypeOK
  <1>1. SupervisionInv => TypeOK
    BY DEF SupervisionInv
  <1>2. QED BY <1>1, Supervision, PTL

\* ConnectWithAPI empties the place of the station's client without a look at
\* who took it, and loses the client that is there: at most once for each
\* login, however often the supervisor reconnects.
THEOREM LeaksAreBounded == Spec => []LeaksBounded
  <1>1. SupervisionInv => LeaksBounded
    <2>. SUFFICES ASSUME SupervisionInv PROVE LeaksBounded
      OBVIOUS
    <2>1. /\ Cardinality(Leaked) \in Nat /\ Cardinality(Owing) \in Nat
          /\ Cardinality(Loaders) \in Nat
          /\ Cardinality(Leaked) + Cardinality(Owing) <= Cardinality(Loaders)
      BY FS_CardinalityType, SupervisionAssumption DEF SupervisionInv, Account
    <2>2. Cardinality(Leaked) <= Cardinality(Loaders)
      BY <2>1
    <2>3. QED BY <2>2 DEF LeaksBounded, Leaked
  <1>2. QED BY <1>1, Supervision, PTL
=============================================================================
