-------------------------- MODULE StreamClients_proofs --------------------------
(***************************************************************************)
(* The two maps of a station's streams agree for every number of channels  *)
(* and of faults, whatever fails in the middle of a start.                 *)
(***************************************************************************)
EXTENDS StreamClients, TLAPS

\* What a call has found out stays so until it ends: only it changes the maps,
\* and a call that connects found no client.
CallKnows ==
    /\ pc = "connect" => conn = "none"
    /\ pc \in {"reuse", "send"} => conn # "none"
    /\ pc = "send" => ch \in streamChannels

ClientsInv == TypeOK /\ ClientHasChannel /\ CallKnows

LEMMA ClientsInit == Init => ClientsInv
  <1>. SUFFICES ASSUME Init
                PROVE  ClientsInv
    OBVIOUS
  <1>1. faults \in 0 .. MaxFaults
    BY StreamClientsAssumption DEF Init
  <1>2. ClientHasChannel /\ CallKnows
    BY DEF Init, ClientHasChannel, CallKnows
  <1>3. TypeOK
    BY <1>1, Zenon DEF Init, TypeOK, Sessions
  <1>4. QED BY <1>2, <1>3 DEF ClientsInv

\* A stop leaves the maps in agreement.
LEMMA StopKeeps ==
    ASSUME ClientsInv, NEW c \in Channels, StopLivestream(c)
    PROVE  /\ conn' \in {"none", "up", "mute", "down"}
           /\ streamChannels' \subseteq Channels /\ feed' \subseteq Channels
           /\ ClientHasChannel'
  BY DEF StopLivestream, ClientsInv, TypeOK, ClientHasChannel, client

LEMMA ClientsStep == ClientsInv /\ [Next]_vars => ClientsInv'
  <1>. SUFFICES ASSUME ClientsInv, [Next]_vars
                PROVE  ClientsInv'
    OBVIOUS
  <1>. USE StreamClientsAssumption
       DEF ClientsInv, TypeOK, ClientHasChannel, CallKnows, Sessions, client, op
  <1>1. ASSUME NEW c \in Channels, Ensure(c)
        PROVE  ClientsInv'
    BY <1>1, StopKeeps DEF Ensure, Begin, SetSession
  <1>2. ASSUME NEW c \in Channels, Restart(c)
        PROVE  ClientsInv'
    BY <1>2, StopKeeps DEF Restart, Begin, SetSession
  <1>3. ASSUME NEW c \in Channels, Stop(c)
        PROVE  ClientsInv'
    BY <1>3, StopKeeps DEF Stop, SetSession
  <1>4. ASSUME NEW c \in Channels, Break(c)
        PROVE  ClientsInv'
    BY <1>4 DEF Break
  <1>5. ASSUME NEW c \in Channels, Frame(c) \/ Corrupt(c) \/ GoStale(c)
        PROVE  ClientsInv'
    BY <1>5 DEF Frame, Corrupt, GoStale, SetSession
  <1>6. CASE Lookup
    BY <1>6 DEF Lookup, NextStep, Return, SetSession
  <1>7. CASE Reuse
    BY <1>7 DEF Reuse, Sent, Return, SetSession
  <1>8. CASE Connect
    BY <1>8 DEF Connect, Return, SetSession
  <1>9. CASE SendStart
    BY <1>9 DEF SendStart, Sent, Return, SetSession
  <1>10. CASE UNCHANGED vars
    BY <1>10 DEF vars
  <1>11. QED
    BY <1>1, <1>2, <1>3, <1>4, <1>5, <1>6, <1>7, <1>8, <1>9, <1>10 DEF Next

-----------------------------------------------------------------------------
\* Every variable has its type, and the lock is held exactly during a call.
THEOREM TypeCorrect == Spec => []TypeOK
  BY ClientsInit, ClientsStep, PTL DEF Spec, ClientsInv

\* streamClients and streamChannels agree after every step of StartLivestream and
\* StopLivestream, whichever of them fails: no client is left without a channel
\* to close it, and no channel is registered for a client that is gone.
THEOREM MapsAgree == Spec => []ClientHasChannel
  BY ClientsInit, ClientsStep, PTL DEF Spec, ClientsInv
=============================================================================
