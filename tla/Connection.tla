----------------------------- MODULE Connection -----------------------------
(***************************************************************************)
(* How a P2P client finds its station and agrees on a key with it:         *)
(* pkg/p2p/client.go, Connect, discoveryLoop, the message handlers that    *)
(* readLoop runs, the goroutine that asks for the key, and Close.          *)
(*                                                                         *)
(* The station, the cloud and the TURN server answer what they are asked,  *)
(* as the handlers expect it: asked holds every request ever sent, and an  *)
(* answer to one may come late, again or never.                            *)
(***************************************************************************)
EXTENDS Integers

CONSTANTS
    Lan, Direct, Relay, \* the station's address in the network, in the world, behind a relay
    Turn,               \* the address LOOKUP_ADDR2 names
    Nobody,             \* remoteAddr = nil
    MaxAttempts,        \* discoveryAttempts
    MaxEnds             \* bound on the sessions the station ends

Paths == {Lan, Direct, Relay, Turn}

ASSUME ConnectionAssumption == /\ Nobody \notin Paths
                               /\ MaxAttempts \in Nat \ {0}
                               /\ MaxEnds \in Nat

VARIABLES
    connected, connecting, remoteAddr,
    cancelled,       \* ctx is done
    closed,          \* Close was called
    connectedReady, encryptionReady, \* the two channels, TRUE when closed
    encryption,
    discovering,     \* discoveryLoop runs
    attempts,
    turnHandshaking, turnConfirmed,
    pc,              \* what readLoop is doing
    hand,            \* the message it holds
    gateways,        \* goroutines about to send CMD_GATEWAYINFO
    asked,           \* requests sent
    ends,            \* sessions the station has ended
    answered         \* history: the addresses a CAM_ID was accepted from

flags == <<connected, connecting, remoteAddr, cancelled, closed>>
ready == <<connectedReady, encryptionReady, encryption>>
seek  == <<discovering, attempts>>
turn  == <<turnHandshaking, turnConfirmed>>
loop  == <<pc, hand>>
vars  == <<flags, ready, seek, turn, loop, gateways, asked, ends, answered>>

Req(type, to) == [type |-> type, to |-> to]

Requests ==
    [type : {"LOCAL_LOOKUP", "LOOKUP_WITH_KEY", "LOOKUP_WITH_KEY2", "TURN_SERVER_INIT",
             "TURN_CLIENT_OK", "TURN_LOOKUP_WITH_KEY", "CHECK_CAM", "CHECK_CAM2", "GATEWAYINFO"},
     to : Paths \cup {Nobody}]       \* Nobody: a broadcast, or the cloud's servers

\* For a LOOKUP_ADDR and a LOOKUP_ADDR2, from is the address it names.
Msg(type, from) == [type |-> type, from |-> from]

Nothing == Msg("none", Nobody)

\* What may come in return for a request.
Answers(r) ==
    CASE r.type = "LOCAL_LOOKUP"         -> {Msg("LOCAL_LOOKUP_RESP", Lan)}
      [] r.type = "LOOKUP_WITH_KEY"      -> {Msg("LOOKUP_ADDR", Direct), Msg("LOOKUP_ADDR", Relay)}
      [] r.type = "LOOKUP_WITH_KEY2"     -> {Msg("LOOKUP_ADDR2", Turn)}
      [] r.type = "TURN_SERVER_INIT"     -> {Msg("TURN_SERVER_OK", Turn)}
      [] r.type = "TURN_CLIENT_OK"       -> {Msg("TURN_SERVER_TOKEN", Turn)}
      [] r.type = "TURN_LOOKUP_WITH_KEY" -> {Msg("CAM_ID", Turn)}
      [] r.type = "GATEWAYINFO"          -> {Msg("DATA", r.to)}
      [] OTHER                           -> {Msg("CAM_ID", r.to), Msg("END", r.to)}

Messages ==
    [type : {"none", "LOCAL_LOOKUP_RESP", "LOOKUP_ADDR", "LOOKUP_ADDR2", "TURN_SERVER_OK",
             "TURN_SERVER_TOKEN", "CAM_ID", "END", "DATA"},
     from : Paths \cup {Nobody}]

Init ==
    /\ connected = FALSE
    /\ connecting = FALSE
    /\ remoteAddr = Nobody
    /\ cancelled = FALSE
    /\ closed = FALSE
    /\ connectedReady = FALSE
    /\ encryptionReady = FALSE
    /\ encryption = "none"
    /\ discovering = FALSE
    /\ attempts = 0
    /\ turnHandshaking = FALSE
    /\ turnConfirmed = FALSE
    /\ pc = "off"
    /\ hand = Nothing
    /\ gateways = 0
    /\ asked = {}
    /\ ends = 0
    /\ answered = {}

-----------------------------------------------------------------------------
(* The caller and the loops it starts.                                     *)

\* The socket may fail to open, which leaves the client as it was. Whether Close was
\* called before is not looked at; each client is connected once.
Connect ==
    /\ ~connected /\ ~connecting /\ pc = "off"
    /\ connecting' = TRUE
    /\ discovering' = TRUE
    /\ pc' = "read"
    /\ UNCHANGED <<connected, remoteAddr, cancelled, closed, ready, attempts, turn, hand,
                   gateways, asked, ends, answered>>

\* Before Connect there is nothing to cancel, and nothing remembers the call. Two
\* callers may close the same client.
Close ==
    /\ closed' = TRUE
    /\ cancelled' = (pc # "off")
    /\ connected' = FALSE
    /\ connecting' = FALSE
    /\ UNCHANGED <<remoteAddr, ready, seek, turn, loop, gateways, asked, ends, answered>>

\* WriteToUDP fails once the socket is closed.
Send(rs) == asked' = IF cancelled THEN asked ELSE asked \cup rs

\* The lookups take turns: local, cloud, cloud with the second format, cloud.
Lookup(n) == Req(IF n % 4 = 0 THEN "LOCAL_LOOKUP"
                 ELSE IF n % 4 = 2 THEN "LOOKUP_WITH_KEY2" ELSE "LOOKUP_WITH_KEY", Nobody)

\* Mutant: the attempts are compared one too late.
DiscoveryTickOneMore ==
    /\ discovering /\ ~cancelled
    /\ IF connected \/ attempts > MaxAttempts
       THEN discovering' = FALSE /\ UNCHANGED <<attempts, asked>>
       ELSE /\ Send({Lookup(attempts)})
            /\ attempts' = attempts + 1
            /\ UNCHANGED discovering
    /\ UNCHANGED <<flags, ready, turn, loop, gateways, ends, answered>>

DiscoveryTick ==
    /\ discovering /\ ~cancelled
    /\ IF connected \/ attempts >= MaxAttempts
       THEN discovering' = FALSE /\ UNCHANGED <<attempts, asked>>
       ELSE /\ Send({Lookup(attempts)})
            /\ attempts' = attempts + 1
            /\ UNCHANGED discovering
    /\ UNCHANGED <<flags, ready, turn, loop, gateways, ends, answered>>

\* Mutant: the loop does not listen to the context, only to its ticker.
DiscoveryStopsOnTick ==
    /\ discovering /\ cancelled /\ attempts >= MaxAttempts
    /\ discovering' = FALSE
    /\ UNCHANGED <<flags, ready, attempts, turn, loop, gateways, asked, ends, answered>>

DiscoveryStops ==
    /\ discovering /\ cancelled
    /\ discovering' = FALSE
    /\ UNCHANGED <<flags, ready, attempts, turn, loop, gateways, asked, ends, answered>>

\* The goroutine a CAM_ID starts reads remoteAddr when it runs.
SendGatewayInfo ==
    /\ gateways > 0
    /\ gateways' = gateways - 1
    /\ IF remoteAddr = Nobody THEN UNCHANGED asked ELSE Send({Req("GATEWAYINFO", remoteAddr)})
    /\ UNCHANGED <<flags, ready, seek, turn, loop, ends, answered>>

-----------------------------------------------------------------------------
(* readLoop and what it calls. A step of it begins where it takes the      *)
(* mutex again or makes a blocking call.                                   *)

\* The context is looked at before the read: a Close may come right after.
Read(m) ==
    /\ pc = "read" /\ ~cancelled
    /\ m.type = "END" => ends < MaxEnds
    /\ pc' = "handle"
    /\ hand' = m
    /\ UNCHANGED <<flags, ready, seek, turn, gateways, asked, ends, answered>>

ReadStops ==
    /\ pc = "read" /\ cancelled
    /\ pc' = "done"
    /\ UNCHANGED <<flags, ready, seek, turn, hand, gateways, asked, ends, answered>>

NextRead == pc' = "read" /\ hand' = Nothing

\* Mutant: a second CAM_ID is not ignored.
HandleCamIdAlways ==
    /\ hand.type = "CAM_ID"
    /\ connected' = TRUE
    /\ connecting' = FALSE
    /\ remoteAddr' = hand.from
    /\ answered' = answered \cup {hand.from}
    /\ pc' = "announce"
    /\ UNCHANGED <<cancelled, closed, ready, turn, hand, asked, ends>>

\* CAM_ID, CAM_ID2, TURN_SERVER_CAM_ID: the first to answer is the peer.
HandleCamId ==
    /\ hand.type = "CAM_ID"
    /\ IF connected
       THEN NextRead /\ UNCHANGED <<flags, answered>>
       ELSE /\ connected' = TRUE
            /\ connecting' = FALSE
            /\ remoteAddr' = hand.from
            /\ answered' = answered \cup {hand.from}
            /\ pc' = "announce"
            /\ UNCHANGED <<cancelled, closed, hand>>
    /\ UNCHANGED <<ready, turn, asked, ends>>

\* The address and its neighbouring ports, or the relay and its.
ConnectToAddr(addr) == Send({Req("CHECK_CAM", addr)})

\* Mutant: the address is taken also while the client is connected.
HandleLocalLookupRespAlways ==
    /\ hand.type = "LOCAL_LOOKUP_RESP"
    /\ remoteAddr' = hand.from
    /\ Send({Req("CHECK_CAM", hand.from)})
    /\ NextRead
    /\ UNCHANGED <<connected, connecting, cancelled, closed, ready, turn, ends, answered>>

\* Mutant: an answer in the local network is taken for the connection.
HandleLocalLookupRespConnects ==
    /\ hand.type = "LOCAL_LOOKUP_RESP"
    /\ remoteAddr' = IF connected THEN remoteAddr ELSE hand.from
    /\ connected' = TRUE
    /\ Send({Req("CHECK_CAM", hand.from)})
    /\ NextRead
    /\ UNCHANGED <<connecting, cancelled, closed, ready, turn, ends, answered>>

HandleLocalLookupResp ==
    /\ hand.type = "LOCAL_LOOKUP_RESP"
    /\ remoteAddr' = IF connected THEN remoteAddr ELSE hand.from
    /\ Send({Req("CHECK_CAM", hand.from)})
    /\ NextRead
    /\ UNCHANGED <<connected, connecting, cancelled, closed, ready, turn, ends, answered>>

HandleLookupAddr ==
    /\ hand.type = "LOOKUP_ADDR"
    /\ IF connected THEN UNCHANGED asked ELSE ConnectToAddr(hand.from)
    /\ NextRead
    /\ UNCHANGED <<flags, ready, turn, ends, answered>>

HandleLookupAddr2 ==
    /\ hand.type = "LOOKUP_ADDR2"
    /\ IF connected
       THEN UNCHANGED <<asked, turnHandshaking>>
       ELSE /\ Send({Req("CHECK_CAM2", hand.from)} \cup
                    (IF turnHandshaking THEN {} ELSE {Req("TURN_SERVER_INIT", hand.from)}))
            /\ turnHandshaking' = TRUE
    /\ NextRead
    /\ UNCHANGED <<flags, ready, turnConfirmed, ends, answered>>

HandleTurnServerOK ==
    /\ hand.type = "TURN_SERVER_OK"
    /\ IF connected \/ turnConfirmed
       THEN UNCHANGED <<asked, turnConfirmed>>
       ELSE /\ turnConfirmed' = TRUE
            /\ Send({Req("TURN_CLIENT_OK", hand.from)})
    /\ NextRead
    /\ UNCHANGED <<flags, ready, turnHandshaking, ends, answered>>

HandleTurnServerToken ==
    /\ hand.type = "TURN_SERVER_TOKEN"
    /\ IF connected
       THEN UNCHANGED asked
       ELSE Send({Req("CHECK_CAM2", hand.from), Req("TURN_LOOKUP_WITH_KEY", Nobody)})
    /\ NextRead
    /\ UNCHANGED <<flags, ready, turn, ends, answered>>

\* Only the peer can end the connection.
HandleEnd ==
    /\ hand.type = "END"
    /\ connected' = (connected /\ hand.from # remoteAddr)
    /\ ends' = ends + 1
    /\ NextRead
    /\ UNCHANGED <<connecting, remoteAddr, cancelled, closed, ready, turn, asked, answered>>

\* The answer to CMD_GATEWAYINFO, from whomever it comes: it is too short or
\* names no key, or the cloud is asked for the cipher, which blocks readLoop.
HandleGatewayInfo ==
    /\ hand.type = "DATA"
    /\ \/ encryption' = "level1" /\ pc' = "signal"
       \/ UNCHANGED encryption /\ pc' = "cipher"
    /\ UNCHANGED <<flags, connectedReady, encryptionReady, turn, hand, asked, ends, answered>>

Handle ==
    /\ pc = "handle"
    /\ \/ HandleCamId \/ HandleLocalLookupResp \/ HandleLookupAddr \/ HandleLookupAddr2
       \/ HandleTurnServerOK \/ HandleTurnServerToken \/ HandleEnd \/ HandleGatewayInfo
    /\ UNCHANGED <<seek, gateways>>

\* Mutant: the callers are told before the cloud has answered.
GetCipherSignalsFirst ==
    /\ pc = "cipher"
    /\ encryptionReady' = TRUE
    /\ encryption' \in {encryption, "level2"}
    /\ pc' = "signal"
    /\ UNCHANGED <<flags, connectedReady, seek, turn, hand, gateways, asked, ends, answered>>

\* GetCipher answers; without a usable cipher the key is derived.
GetCipher ==
    /\ pc = "cipher"
    /\ encryption' \in {"level1", "level2"}
    /\ pc' = "signal"
    /\ UNCHANGED <<flags, connectedReady, encryptionReady, seek, turn, hand, gateways, asked,
                   ends, answered>>

SignalEncryptionReady ==
    /\ pc = "signal"
    /\ encryptionReady' = TRUE
    /\ NextRead
    /\ UNCHANGED <<flags, connectedReady, encryption, seek, turn, gateways, asked, ends, answered>>

Announce ==
    /\ pc = "announce"
    /\ connectedReady' = TRUE
    /\ gateways' = gateways + 1
    /\ NextRead
    /\ UNCHANGED <<flags, encryptionReady, encryption, seek, turn, asked, ends, answered>>

Next ==
    \/ Connect
    \/ Close
    \/ DiscoveryTick
    \/ DiscoveryStops
    \/ SendGatewayInfo
    \/ \E r \in asked : \E m \in Answers(r) : Read(m)
    \/ ReadStops
    \/ Handle
    \/ GetCipher
    \/ SignalEncryptionReady
    \/ Announce

Spec == Init /\ [][Next]_vars

\* The reads have a deadline of a second, GetCipher's request one of thirty,
\* and goroutines run.
Fairness ==
    /\ WF_vars(ReadStops) /\ WF_vars(Handle) /\ WF_vars(GetCipher)
    /\ WF_vars(SignalEncryptionReady) /\ WF_vars(Announce)
    /\ WF_vars(DiscoveryStops) /\ WF_vars(SendGatewayInfo)

FairSpec == Spec /\ Fairness

-----------------------------------------------------------------------------
(* Properties.                                                             *)

\* Every variable has its type.
TypeOK ==
    /\ connected \in BOOLEAN /\ connecting \in BOOLEAN /\ cancelled \in BOOLEAN
    /\ closed \in BOOLEAN
    /\ remoteAddr \in Paths \cup {Nobody}
    /\ connectedReady \in BOOLEAN /\ encryptionReady \in BOOLEAN
    /\ encryption \in {"none", "level1", "level2"}
    /\ discovering \in BOOLEAN /\ attempts \in 0 .. MaxAttempts
    /\ turnHandshaking \in BOOLEAN /\ turnConfirmed \in BOOLEAN
    /\ pc \in {"off", "read", "handle", "announce", "cipher", "signal", "done"}
    /\ hand \in Messages
    /\ gateways \in Nat /\ ends \in Nat
    /\ asked \subseteq Requests
    /\ answered \subseteq Paths

\* With lookups on four paths racing each other, a connected client talks to
\* an address that answered as the station, and to no other before that
\* connection has ended.
PeerAnswered == connected => remoteAddr \in answered

PeerFixed == [][connected /\ connected' => remoteAddr' = remoteAddr]_vars

\* Whoever is released by encryptionReady finds a key, and a station that was
\* connected before: no command goes out in the clear.
KeyBeforeReady == encryptionReady => encryption # "none" /\ connectedReady

LoopsEnded == pc \in {"off", "done"} /\ ~discovering /\ gateways = 0

\* Close of a client that was connected ends all its goroutines, whatever each is
\* doing, also when a CAM_ID in the hand of readLoop connects it once more.
CloseEndsLoops == cancelled ~> LoopsEnded

\* The same of every Close, also of one that Connect follows.
EveryCloseEndsLoops == closed ~> LoopsEnded

\* The promise the station's code relies on. The peer has answered as soon as
\* the flag is set, just before the channel is closed.
Client == INSTANCE P2PClient WITH
    status <- [reached |-> connectedReady \/ pc = "announce",
               keyed   |-> encryptionReady,
               up      |-> connected,
               closed  |-> closed]

ImplementsP2PClient == Client!Spec
=============================================================================
