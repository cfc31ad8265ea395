--------------------------- MODULE Connection_proofs ---------------------------
(***************************************************************************)
(* A P2P client keeps its promise for every number of lookups and of       *)
(* sessions that the station ends, whatever answers come late, again or    *)
(* never: it talks to an address that answered, it has a key before it     *)
(* says so, and it implements P2PClient.                                   *)
(***************************************************************************)
EXTENDS Connection, TLAPS

\* What is asked of the station is asked at one of its addresses.
AskedAddresses ==
    \A r \in asked : r.type \notin {"LOCAL_LOOKUP", "LOOKUP_WITH_KEY", "LOOKUP_WITH_KEY2",
                                    "TURN_LOOKUP_WITH_KEY"} => r.to \in Paths

\* What readLoop holds came from one of them.
HandAddress == hand.type # "none" => hand.from \in Paths

\* The message readLoop holds while it goes on with a handler.
HandFits ==
    /\ pc = "announce" => hand.type = "CAM_ID"
    /\ pc \in {"cipher", "signal"} => hand.type = "DATA"
    /\ pc = "handle" => hand.type # "none"

\* Only a client that was connected asks for the key.
KeyAskedLater ==
    /\ gateways > 0 => connectedReady
    /\ \A r \in asked : r.type = "GATEWAYINFO" => connectedReady
    /\ hand.type = "DATA" => connectedReady
    /\ pc = "signal" => encryption # "none"

ConnectionInv == /\ TypeOK /\ PeerAnswered /\ KeyBeforeReady
                 /\ AskedAddresses /\ HandAddress /\ HandFits /\ KeyAskedLater

-----------------------------------------------------------------------------
LEMMA ConnectionInit == Init => ConnectionInv
  <1>. SUFFICES ASSUME Init
                PROVE  ConnectionInv
    OBVIOUS
  <1>1. Nothing \in Messages /\ Nothing.type = "none"
    BY DEF Nothing, Msg, Messages
  <1>2. TypeOK
    <2>1. attempts \in 0 .. MaxAttempts /\ gateways \in Nat /\ ends \in Nat
      BY ConnectionAssumption DEF Init
    <2>2. QED BY <1>1, <2>1, Zenon DEF Init, TypeOK
  <1>3. PeerAnswered /\ KeyBeforeReady
    BY DEF Init, PeerAnswered, KeyBeforeReady
  <1>4. AskedAddresses /\ HandAddress /\ HandFits /\ KeyAskedLater
    BY <1>1 DEF Init, AskedAddresses, HandAddress, HandFits, KeyAskedLater
  <1>5. QED BY <1>2, <1>3, <1>4 DEF ConnectionInv

\* An answer to a request is a message, from one of the station's addresses, and
\* the answer with the key follows its request.
LEMMA AnswerTypes ==
    ASSUME NEW r \in Requests, NEW m \in Answers(r),
           r.type \notin {"LOCAL_LOOKUP", "LOOKUP_WITH_KEY", "LOOKUP_WITH_KEY2",
                          "TURN_LOOKUP_WITH_KEY"} => r.to \in Paths
    PROVE  /\ m \in Messages /\ m.from \in Paths /\ m.type # "none"
           /\ m.type = "DATA" => r.type = "GATEWAYINFO"
  BY DEF Requests, Answers, Messages, Msg, Paths

\* Sending keeps the requests well formed.
LEMMA SendTypes ==
    ASSUME asked \subseteq Requests, AskedAddresses,
           NEW rs \in SUBSET Requests,
           \A r \in rs : r.to \in Paths \/ r.type \in {"LOCAL_LOOKUP", "LOOKUP_WITH_KEY",
                                                      "LOOKUP_WITH_KEY2", "TURN_LOOKUP_WITH_KEY"},
           Send(rs)
    PROVE  asked' \subseteq Requests /\ AskedAddresses'
  BY DEF Send, AskedAddresses

\* The flags, channels and handshakes of the client have their types.
FlagTypes ==
    /\ connected \in BOOLEAN /\ connecting \in BOOLEAN /\ cancelled \in BOOLEAN
    /\ closed \in BOOLEAN
    /\ remoteAddr \in Paths \cup {Nobody}
    /\ connectedReady \in BOOLEAN /\ encryptionReady \in BOOLEAN
    /\ encryption \in {"none", "level1", "level2"}
    /\ turnHandshaking \in BOOLEAN /\ turnConfirmed \in BOOLEAN
    /\ pc \in {"off", "read", "handle", "announce", "cipher", "signal", "done"}
    /\ hand \in Messages

LEMMA SameFlags == TypeOK /\ UNCHANGED <<flags, ready, turn, loop>> => FlagTypes'
  <1>. SUFFICES ASSUME TypeOK, UNCHANGED <<flags, ready, turn, loop>>
                PROVE  FlagTypes'
    OBVIOUS
  <1>1. /\ connected' = connected /\ connecting' = connecting /\ cancelled' = cancelled
        /\ closed' = closed /\ remoteAddr' = remoteAddr
        /\ connectedReady' = connectedReady /\ encryptionReady' = encryptionReady
        /\ encryption' = encryption /\ turnHandshaking' = turnHandshaking
        /\ turnConfirmed' = turnConfirmed /\ pc' = pc /\ hand' = hand
    BY DEF flags, ready, turn, loop
  <1>2. /\ connected \in BOOLEAN /\ connecting \in BOOLEAN /\ cancelled \in BOOLEAN
        /\ closed \in BOOLEAN /\ connectedReady \in BOOLEAN /\ encryptionReady \in BOOLEAN
        /\ turnHandshaking \in BOOLEAN /\ turnConfirmed \in BOOLEAN
    BY Zenon DEF TypeOK
  <1>3. /\ connected' \in BOOLEAN /\ connecting' \in BOOLEAN /\ cancelled' \in BOOLEAN
        /\ closed' \in BOOLEAN /\ connectedReady' \in BOOLEAN /\ encryptionReady' \in BOOLEAN
        /\ turnHandshaking' \in BOOLEAN /\ turnConfirmed' \in BOOLEAN
    BY <1>1, <1>2, Zenon
  <1>4. /\ remoteAddr' \in Paths \cup {Nobody}
        /\ encryption' \in {"none", "level1", "level2"}
        /\ pc' \in {"off", "read", "handle", "announce", "cipher", "signal", "done"}
        /\ hand' \in Messages
    BY <1>1 DEF TypeOK
  <1>5. QED BY <1>3, <1>4, Zenon DEF FlagTypes

LEMMA ConnectionStep == ConnectionInv /\ [Next]_vars => ConnectionInv'
  <1>. SUFFICES ASSUME ConnectionInv, [Next]_vars
                PROVE  ConnectionInv'
    OBVIOUS
  <1>. USE DEF ConnectionInv, TypeOK, PeerAnswered, KeyBeforeReady, AskedAddresses, HandAddress,
               HandFits, KeyAskedLater, flags, ready, seek, turn, loop
  <1>. Nothing \in Messages /\ Nothing.type = "none"
    BY DEF Nothing, Msg, Messages
  <1>1. CASE Connect
    BY <1>1 DEF Connect
  <1>2. CASE Close
    <2>1. /\ connected' \in BOOLEAN /\ connecting' \in BOOLEAN
          /\ cancelled' \in BOOLEAN /\ closed' \in BOOLEAN
      BY <1>2, Zenon DEF Close
    <2>2. UNCHANGED <<remoteAddr, ready, seek, turn, loop, gateways, asked, ends, answered>>
      BY <1>2, Zenon DEF Close
    <2>3. ~connected'
      BY <1>2, Zenon DEF Close
    <2>4. TypeOK'
      BY <2>1, <2>2
    <2>5. PeerAnswered'
      BY <2>3, Zenon
    <2>6. KeyBeforeReady' /\ AskedAddresses' /\ HandAddress' /\ HandFits' /\ KeyAskedLater'
      BY <2>2
    <2>7. QED BY <2>4, <2>5, <2>6, Zenon
  <1>3. CASE DiscoveryTick
    <2>1. attempts' \in 0 .. MaxAttempts
      <3>1. \/ attempts' = attempts
            \/ ~(attempts >= MaxAttempts) /\ attempts' = attempts + 1
        BY <1>3 DEF DiscoveryTick
      <3>2. QED BY <3>1, ConnectionAssumption
    <2>2. PICK q \in {"LOCAL_LOOKUP", "LOOKUP_WITH_KEY", "LOOKUP_WITH_KEY2"} :
                Lookup(attempts) = Req(q, Nobody)
      BY DEF Lookup
    <2>3. /\ Lookup(attempts) \in Requests
          /\ Lookup(attempts).type \in {"LOCAL_LOOKUP", "LOOKUP_WITH_KEY", "LOOKUP_WITH_KEY2"}
      BY <2>2 DEF Req, Requests
    <2>4. asked' \subseteq Requests /\ AskedAddresses'
      BY <1>3, <2>3 DEF DiscoveryTick, Send
    <2>5. \A r \in asked' : r.type = "GATEWAYINFO" => connectedReady'
      BY <1>3, <2>3 DEF DiscoveryTick, Send
    <2>6. discovering' \in BOOLEAN
      BY <1>3 DEF DiscoveryTick
    <2>7. UNCHANGED <<flags, ready, turn, loop, gateways, ends, answered>>
      BY <1>3 DEF DiscoveryTick
    <2>8. TypeOK'
      <3>1. FlagTypes' /\ gateways' = gateways /\ ends' = ends /\ answered' = answered
        BY <2>7, SameFlags
      <3>2. QED BY <2>1, <2>4, <2>6, <3>1, Zenon DEF FlagTypes
    <2>9. (PeerAnswered /\ KeyBeforeReady /\ HandAddress /\ HandFits /\ KeyAskedLater)'
      BY <2>5, <2>7
    <2>10. QED BY <2>4, <2>8, <2>9
  <1>4. CASE DiscoveryStops
    <2>1. /\ discovering' = FALSE
          /\ UNCHANGED <<flags, ready, attempts, turn, loop, gateways, asked, ends, answered>>
      BY <1>4 DEF DiscoveryStops
    <2>2. TypeOK'
      <3>1. /\ FlagTypes' /\ attempts' = attempts /\ gateways' = gateways /\ asked' = asked
            /\ ends' = ends /\ answered' = answered
        BY <2>1, SameFlags
      <3>2. QED BY <2>1, <3>1, Zenon DEF FlagTypes
    <2>3. QED BY <2>1, <2>2
  <1>5. CASE SendGatewayInfo
    <2>1. gateways' \in Nat /\ connectedReady
      BY <1>5 DEF SendGatewayInfo
    <2>2. asked' \subseteq Requests /\ AskedAddresses'
      BY <1>5 DEF SendGatewayInfo, Send, Req, Requests
    <2>3. UNCHANGED <<flags, ready, seek, turn, loop, ends, answered>>
      BY <1>5 DEF SendGatewayInfo
    <2>4. TypeOK'
      <3>1. /\ FlagTypes' /\ discovering' = discovering /\ attempts' = attempts
            /\ ends' = ends /\ answered' = answered
        BY <2>3, SameFlags
      <3>2. QED BY <2>1, <2>2, <3>1, Zenon DEF FlagTypes
    <2>5. (PeerAnswered /\ KeyBeforeReady /\ HandAddress /\ HandFits /\ KeyAskedLater)'
      BY <2>1, <2>3
    <2>6. QED BY <2>2, <2>4, <2>5
  <1>6. CASE \E r \in asked : \E m \in Answers(r) : Read(m)
    <2>. PICK r \in asked : \E m \in Answers(r) : Read(m)
      BY <1>6
    <2>. PICK m \in Answers(r) : Read(m)
      OBVIOUS
    <2>1. m \in Messages /\ m.from \in Paths /\ m.type # "none"
      BY AnswerTypes
    <2>2. m.type = "DATA" => connectedReady
      BY AnswerTypes
    <2>3. QED BY <2>1, <2>2, Zenon DEF Read
  <1>7. CASE Handle
    <2>. UNCHANGED <<seek, gateways>> /\ pc = "handle"
      BY <1>7 DEF Handle
    <2>. hand \in Messages /\ hand.from \in Paths /\ Nobody \notin Paths
      BY ConnectionAssumption
    <2>1. CASE HandleCamId
      <3>1. CASE connected
        BY <2>1, <3>1 DEF HandleCamId, NextRead
      <3>2. CASE ~connected
        <4>1. /\ connected' = TRUE /\ connecting' = FALSE /\ remoteAddr' = hand.from
              /\ answered' = answered \cup {hand.from} /\ pc' = "announce"
              /\ UNCHANGED <<cancelled, closed, hand, ready, turn, asked, ends>>
              /\ hand.type = "CAM_ID"
          BY <2>1, <3>2 DEF HandleCamId
        <4>2. TypeOK'
          BY <4>1, Zenon
        <4>3. QED BY <4>1, <4>2
      <3>3. QED BY <3>1, <3>2
    <2>2. CASE HandleLocalLookupResp
      <3>1. asked' \subseteq Requests /\ AskedAddresses'
        BY <2>2 DEF HandleLocalLookupResp, Send, Req, Requests
      <3>2. \A r \in asked' : r.type = "GATEWAYINFO" => connectedReady'
        BY <2>2 DEF HandleLocalLookupResp, Send, Req
      <3>3. QED BY <2>2, <3>1, <3>2 DEF HandleLocalLookupResp, NextRead
    <2>3. CASE HandleLookupAddr
      <3>1. asked' \subseteq Requests /\ AskedAddresses'
        BY <2>3 DEF HandleLookupAddr, Send, ConnectToAddr, Req, Requests
      <3>2. \A r \in asked' : r.type = "GATEWAYINFO" => connectedReady'
        BY <2>3 DEF HandleLookupAddr, Send, ConnectToAddr, Req
      <3>3. QED BY <2>3, <3>1, <3>2 DEF HandleLookupAddr, NextRead
    <2>4. CASE HandleLookupAddr2
      <3>1. asked' \subseteq Requests /\ AskedAddresses'
        BY <2>4 DEF HandleLookupAddr2, Send, Req, Requests
      <3>2. \A r \in asked' : r.type = "GATEWAYINFO" => connectedReady'
        BY <2>4 DEF HandleLookupAddr2, Send, Req
      <3>3. QED BY <2>4, <3>1, <3>2 DEF HandleLookupAddr2, NextRead
    <2>5. CASE HandleTurnServerOK
      <3>1. asked' \subseteq Requests /\ AskedAddresses'
        BY <2>5 DEF HandleTurnServerOK, Send, Req, Requests
      <3>2. \A r \in asked' : r.type = "GATEWAYINFO" => connectedReady'
        BY <2>5 DEF HandleTurnServerOK, Send, Req
      <3>3. QED BY <2>5, <3>1, <3>2 DEF HandleTurnServerOK, NextRead
    <2>6. CASE HandleTurnServerToken
      <3>1. asked' \subseteq Requests /\ AskedAddresses'
        BY <2>6 DEF HandleTurnServerToken, Send, Req, Requests
      <3>2. \A r \in asked' : r.type = "GATEWAYINFO" => connectedReady'
        BY <2>6 DEF HandleTurnServerToken, Send, Req
      <3>3. QED BY <2>6, <3>1, <3>2 DEF HandleTurnServerToken, NextRead
    <2>7. CASE HandleEnd
      BY <2>7 DEF HandleEnd, NextRead
    <2>8. CASE HandleGatewayInfo
      BY <2>8 DEF HandleGatewayInfo
    <2>9. QED BY <1>7, <2>1, <2>2, <2>3, <2>4, <2>5, <2>6, <2>7, <2>8 DEF Handle
  <1>8. CASE ReadStops
    BY <1>8 DEF ReadStops
  <1>9. CASE GetCipher
    BY <1>9 DEF GetCipher
  <1>10. CASE SignalEncryptionReady
    BY <1>10 DEF SignalEncryptionReady, NextRead
  <1>11. CASE Announce
    BY <1>11 DEF Announce, NextRead
  <1>12. CASE UNCHANGED vars
    BY <1>12 DEF vars
  <1>13. QED BY <1>1, <1>2, <1>3, <1>4, <1>5, <1>6, <1>7, <1>8, <1>9, <1>10, <1>11, <1>12 DEF Next

LEMMA ConnectionInvariant == Spec => []ConnectionInv
  BY ConnectionInit, ConnectionStep, PTL DEF Spec

-----------------------------------------------------------------------------
\* Every variable has its type, whatever the number of lookups and sessions.
THEOREM TypeCorrect == Spec => []TypeOK
  BY ConnectionInvariant, PTL DEF ConnectionInv

\* A connected client talks to an address that answered as the station:
\* handleCamID is the only one to set connected, and stores the address.
THEOREM PeerHasAnswered == Spec => []PeerAnswered
  BY ConnectionInvariant, PTL DEF ConnectionInv

\* signalEncryptionReady releases nobody without a key, or before the station
\* was connected: the key is asked for by the goroutine handleCamID starts.
THEOREM KeyFirst == Spec => []KeyBeforeReady
  BY ConnectionInvariant, PTL DEF ConnectionInv

\* No late or repeated answer of a lookup moves a connected client to another
\* address.
THEOREM PeerStays == Spec => PeerFixed
  <1>1. [Next]_vars => [connected /\ connected' => remoteAddr' = remoteAddr]_vars
    <2>. SUFFICES ASSUME Next, connected, connected'
                  PROVE  remoteAddr' = remoteAddr
      OBVIOUS
    <2>. USE DEF flags
    <2>1. CASE Handle
      BY <2>1 DEF Handle, HandleCamId, HandleLocalLookupResp, HandleLookupAddr,
                  HandleLookupAddr2, HandleTurnServerOK, HandleTurnServerToken, HandleEnd,
                  HandleGatewayInfo, NextRead
    <2>2. CASE \E r \in asked : \E m \in Answers(r) : Read(m)
      BY <2>2 DEF Read
    <2>3. QED
      BY <2>1, <2>2 DEF Next, Connect, Close, DiscoveryTick, DiscoveryStops, SendGatewayInfo,
                        ReadStops, GetCipher, SignalEncryptionReady, Announce
  <1>2. QED BY <1>1, PTL DEF Spec, PeerFixed

\* The steps of P2PClient, field by field.
LEMMA ClientSteps ==
    ASSUME NEW r \in BOOLEAN, NEW k \in BOOLEAN, NEW u \in BOOLEAN, NEW c \in BOOLEAN
    PROVE  LET s == [reached |-> r, keyed |-> k, up |-> u, closed |-> c]
           IN  /\ ~u => Client!Reach(s, [reached |-> TRUE, keyed |-> k, up |-> TRUE, closed |-> c])
               /\ r  => Client!Key(s, [reached |-> r, keyed |-> TRUE, up |-> u, closed |-> c])
               /\ u  => Client!Drop(s, [reached |-> r, keyed |-> k, up |-> FALSE, closed |-> c])
               /\ Client!Shut(s, [reached |-> r, keyed |-> k, up |-> FALSE, closed |-> TRUE])
  <1>. DEFINE s == [reached |-> r, keyed |-> k, up |-> u, closed |-> c]
  <1>1. ~u => Client!Reach(s, [reached |-> TRUE, keyed |-> k, up |-> TRUE, closed |-> c])
    BY DEF Client!Reach
  <1>2. r => Client!Key(s, [reached |-> r, keyed |-> TRUE, up |-> u, closed |-> c])
    BY DEF Client!Key
  <1>3. u => Client!Drop(s, [reached |-> r, keyed |-> k, up |-> FALSE, closed |-> c])
    BY DEF Client!Drop
  <1>4. Client!Shut(s, [reached |-> r, keyed |-> k, up |-> FALSE, closed |-> TRUE])
    BY DEF Client!Shut
  <1>5. QED BY <1>1, <1>2, <1>3, <1>4

\* Connection implements P2PClient: a key only after the station was reached, no
\* connection without an answer, and none of the promises is taken back except
\* that the connection may be lost.
THEOREM ClientKeepsPromise == Spec => ImplementsP2PClient
  <1>. DEFINE status == [reached |-> connectedReady \/ pc = "announce",
                         keyed   |-> encryptionReady,
                         up      |-> connected,
                         closed |-> closed]
  <1>1. Init => Client!Init
    BY Zenon DEF Init, Client!Init, Client!Fresh
  <1>2. ConnectionInv /\ [Next]_vars => [Client!Next]_status
    <2>. SUFFICES ASSUME ConnectionInv, [Next]_vars
                  PROVE  Client!Next \/ UNCHANGED status
      OBVIOUS
    <2>. USE DEF ConnectionInv, TypeOK, HandFits, KeyAskedLater, flags, ready, loop,
                 Client!Next, Client!Step
    <2>1. CASE HandleCamId /\ pc = "handle" /\ ~connected
      <3>1. status' = [reached |-> TRUE, keyed |-> encryptionReady, up |-> TRUE, closed |-> closed]
        BY <2>1 DEF HandleCamId
      <3>2. ~connected
        BY <2>1
      <3>3. Client!Reach(status, status')
        BY <3>1, <3>2, ClientSteps
      <3>4. QED BY <3>3
    <2>2. CASE SignalEncryptionReady
      <3>1. status' = [reached |-> connectedReady \/ pc = "announce", keyed |-> TRUE, up |-> connected, closed |-> closed]
        BY <2>2 DEF SignalEncryptionReady, NextRead
      <3>2. connectedReady \/ pc = "announce"
        BY <2>2 DEF SignalEncryptionReady
      <3>3. Client!Key(status, status')
        BY <3>1, <3>2, ClientSteps
      <3>4. QED BY <3>3
    <2>3. CASE HandleEnd /\ pc = "handle" /\ connected /\ hand.from = remoteAddr
      <3>1. status' = [reached |-> connectedReady \/ pc = "announce", keyed |-> encryptionReady, up |-> FALSE, closed |-> closed]
        BY <2>3 DEF HandleEnd, NextRead
      <3>2. connected
        BY <2>3
      <3>3. Client!Drop(status, status')
        BY <3>1, <3>2, ClientSteps
      <3>4. QED BY <3>3
    <2>4. CASE Close
      <3>1. status' = [reached |-> connectedReady \/ pc = "announce", keyed |-> encryptionReady, up |-> FALSE,
                       closed |-> TRUE]
        BY <2>4 DEF Close
      <3>2. Client!Shut(status, status')
        BY <3>1, ClientSteps
      <3>3. QED BY <3>2
    <2>5. CASE Announce
      BY <2>5 DEF Announce, NextRead
    <2>6. CASE Handle /\ ~(HandleCamId /\ ~connected)
                      /\ ~(HandleEnd /\ connected /\ hand.from = remoteAddr)
      BY <2>6 DEF Handle, HandleCamId, HandleLocalLookupResp, HandleLookupAddr,
                  HandleLookupAddr2, HandleTurnServerOK, HandleTurnServerToken, HandleEnd,
                  HandleGatewayInfo, NextRead
    <2>7. CASE Connect \/ DiscoveryTick \/ DiscoveryStops \/ SendGatewayInfo
      BY <2>7 DEF Connect, DiscoveryTick, DiscoveryStops, SendGatewayInfo
    <2>8. CASE \E r \in asked : \E m \in Answers(r) : Read(m)
      BY <2>8 DEF Read
    <2>9. CASE ReadStops \/ GetCipher \/ UNCHANGED vars
      BY <2>9 DEF ReadStops, GetCipher, vars
    <2>10. QED
      BY <2>1, <2>2, <2>3, <2>4, <2>5, <2>6, <2>7, <2>8, <2>9, Zenon DEF Next, Handle
  <1>3. QED
    BY <1>1, <1>2, ConnectionInvariant, PTL DEF Spec, ImplementsP2PClient, Client!Spec
=============================================================================
