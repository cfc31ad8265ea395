---------------------------- MODULE VideoReceive ----------------------------
(***************************************************************************)
(* How a P2P client turns the station's numbered video packets back into   *)
(* video frames: pkg/p2p/client.go, handleDataMessage (video branch),      *)
(* handleVideoMessage, processVideoInOrder, resyncVideoQueue and           *)
(* processVideoPacket, all run by the client's one readLoop goroutine.     *)
(*                                                                         *)
(* Packets are named by their position 0 .. N-1 in the stream; only the    *)
(* sequence number Seq(i) of packet i travels with it.  The station and    *)
(* the network are not part of the repository: they are modelled from what *)
(* the receiver's comments and tests say of them, a go-back-N sender over  *)
(* a network that loses, duplicates and reorders.                          *)
(***************************************************************************)
EXTENDS SeqNumbers, Sequences, FiniteSets

CONSTANTS
    Start,       \* sequence number of packet 0
    N,           \* how many packets the station sends
    Channels,    \* the video channels of the station
    First,       \* the packets that start a frame (they carry the P2P header)
    Channel,     \* the channel each of these names
    Declared,    \* the frame size each of these declares
    Bytes,       \* the video bytes each packet carries
    MaxFrame,    \* maxVideoFrameBytes
    MaxQueued,   \* maxQueuedVideoPackets
    Threshold,   \* videoResyncThreshold, in ticks
    Window,      \* the station's go-back-N window
    MaxInFlight, \* bound on the packets on the wire at one time
    GiveUp       \* whether the station may stop retransmitting a packet

Packets == 0 .. N - 1

ASSUME StreamAssumption ==
    /\ N \in Nat \ {0}
    /\ Start \in SeqNo
    /\ First \subseteq Packets
    /\ Channel \in [First -> Channels]
    /\ Declared \in [First -> Int]
    /\ Bytes \in [Packets -> Nat]
    /\ 0 \in Channels

ASSUME LimitAssumption ==
    /\ MaxFrame \in Nat
    /\ MaxQueued \in Nat
    /\ Threshold \in Nat
    /\ Window \in Nat \ {0}
    /\ MaxInFlight \in Nat \ {0}
    /\ GiveUp \in BOOLEAN

Seq16(i) == (Start + i) % Modulus

VARIABLES
    \* station and network
    sent,        \* packets 0 .. sent-1 have been sent at least once
    acked,       \* packets the station no longer retransmits
    net,         \* packets on the wire
    \* the client
    pc,          \* readLoop: "wait" for a packet, or "drain" the queue
    initialized, \* seqInitialized
    expected,    \* expectedSeqNo
    queue,       \* queuedData: sequence number -> packet
    idle,        \* ticks since lastVideoPacketTime
    states,      \* videoStates: the frame under reassembly of each channel
    lastChannel, \* lastVideoChannel
    \* history
    high,        \* the packet processed last, -1 when none was
    out,         \* the frames handed to handleVideoData, each its packets
    gapAge       \* ticks since the gap before the queued packets opened

station == <<sent, acked, net>>
client  == <<pc, initialized, expected, queue, idle, states, lastChannel>>
history == <<high, out, gapAge>>
vars    == <<station, client, history>>

FrameState == [bytesToRead : Nat, bytesRead : Nat, frameBuf : Seq(Packets)]

NoFrame == [bytesToRead |-> 0, bytesRead |-> 0, frameBuf |-> <<>>]

EmptyQueue == [k \in {} |-> 0]

Init ==
    /\ sent = 0
    /\ acked = {}
    /\ net = {}
    /\ pc = "wait"
    /\ initialized = FALSE
    /\ expected = 0
    /\ queue = EmptyQueue
    /\ idle = Threshold + 1           \* the zero time.Time is long ago
    /\ states = [c \in Channels |-> NoFrame]
    /\ lastChannel = 0
    /\ high = -1
    /\ out = <<>>
    /\ gapAge = 0

-----------------------------------------------------------------------------
(* Frame reassembly.                                                       *)

\* What one packet does to the frame f under reassembly on its channel.
Reassemble(i, f) ==
    IF i \in First
    THEN IF Declared[i] <= 0 \/ Declared[i] > MaxFrame
         THEN f
         ELSE [bytesToRead |-> Declared[i], bytesRead |-> Bytes[i], frameBuf |-> <<i>>]
    ELSE IF f.bytesToRead = 0
         THEN f
         ELSE IF f.bytesRead + Bytes[i] > f.bytesToRead
              THEN NoFrame
              ELSE [bytesToRead |-> f.bytesToRead, bytesRead |-> f.bytesRead + Bytes[i],
                    frameBuf |-> Append(f.frameBuf, i)]

Complete(f) == f.bytesToRead > 0 /\ f.bytesRead >= f.bytesToRead

\* Mutant: a finished frame is not reset, the packets after it are added to it.
ProcessVideoPacketNoReset(i, sts) ==
    LET ch == IF i \in First THEN Channel[i] ELSE lastChannel
        f  == Reassemble(i, sts[ch])
    IN  /\ lastChannel' = ch
        /\ states' = [sts EXCEPT ![ch] = f]
        /\ out' = IF Complete(f) THEN Append(out, f.frameBuf) ELSE out
        /\ high' = i

\* processVideoPacket(i), with sts the frames under reassembly.
ProcessVideoPacket(i, sts) ==
    LET ch == IF i \in First THEN Channel[i] ELSE lastChannel
        f  == Reassemble(i, sts[ch])
    IN  /\ lastChannel' = ch
        /\ states' = [sts EXCEPT ![ch] = IF Complete(f) THEN NoFrame ELSE f]
        /\ out' = IF Complete(f) THEN Append(out, f.frameBuf) ELSE out
        /\ high' = i

-----------------------------------------------------------------------------
(* The video sequence handling.                                            *)

\* Mutant: acknowledge with the next sequence number, as TCP does.
SendAckNext(i) == acked' \in {acked, acked \cup {i + 1}}

\* Mutant: no ACK for what was already processed.
SendAckFresh(i) ==
    acked' \in IF initialized /\ IsSeqBefore(Seq16(i), expected)
               THEN {acked}
               ELSE {acked, acked \cup {i}}

\* handleDataMessage acknowledges whatever arrives, duplicates included,
\* before it looks at it.  The network delivers the ACK or loses it.
SendAck(i) == acked' \in {acked, acked \cup {i}}

\* processVideoInOrder up to its drain loop, which Drain runs to its end
\* before the goroutine reads another packet.
ProcessInOrder(i, seq, sts) ==
    /\ ProcessVideoPacket(i, sts)
    /\ expected' = IncrementSequence(seq)
    /\ pc' = "drain"

\* Mutant: take whichever entry the map yields first.
LowestFirst(keys) == keys

\* The sequence numbers a scan of the queue in map order can end at: those no
\* other queued one precedes.  If the relation is cyclic on the queue (entries
\* spread over more than half of the ring) the order of the map decides.
Lowest(keys) ==
    LET minimal == {k \in keys : \A s \in keys : ~IsSeqBefore(s, k)}
    IN  IF minimal # {} THEN minimal ELSE keys

\* Mutant: continue the frames under reassembly across the gap.
ResyncKeepFrames(q) ==
    \E lowest \in Lowest(DOMAIN q) :
        /\ queue' = [k \in {s \in DOMAIN q : s # lowest /\ ~IsSeqBefore(s, lowest)} |-> q[k]]
        /\ ProcessInOrder(q[lowest], lowest, states)
        /\ gapAge' = 0

\* Mutant: process the lowest entry and leave it in the queue.
ResyncKeepEntry(q) ==
    \E lowest \in Lowest(DOMAIN q) :
        /\ queue' = [k \in {s \in DOMAIN q : ~IsSeqBefore(s, lowest)} |-> q[k]]
        /\ ProcessInOrder(q[lowest], lowest, [c \in Channels |-> NoFrame])
        /\ gapAge' = 0

\* resyncVideoQueue on the queue q: skip to the lowest queued packet, give up
\* every frame under reassembly, purge what is before the new position.
Resync(q) ==
    \E lowest \in Lowest(DOMAIN q) :
        /\ queue' = [k \in {s \in DOMAIN q : s # lowest /\ ~IsSeqBefore(s, lowest)} |-> q[k]]
        /\ ProcessInOrder(q[lowest], lowest, [c \in Channels |-> NoFrame])
        /\ gapAge' = 0

Enqueue(i) == [k \in DOMAIN queue \cup {Seq16(i)} |-> IF k = Seq16(i) THEN i ELSE queue[k]]

\* Mutant: look at the length of the queue before the packet was added.
QueueAheadLate(i) ==
    IF idle > Threshold \/ Cardinality(DOMAIN queue) > MaxQueued
    THEN Resync(Enqueue(i))
    ELSE /\ queue' = Enqueue(i)
         /\ UNCHANGED <<pc, expected, states, lastChannel, high, out, gapAge>>

\* The queue holds packet i after a gap: hold the gap open, unless nothing was
\* in order for too long or the queue is over its limit.
QueueAhead(i) ==
    IF idle > Threshold \/ Cardinality(DOMAIN Enqueue(i)) > MaxQueued
    THEN Resync(Enqueue(i))
    ELSE /\ queue' = Enqueue(i)
         /\ UNCHANGED <<pc, expected, states, lastChannel, high, out, gapAge>>

\* Mutant: queue duplicates and late packets like everything else that is not
\* expected.
HandleVideoMessageNoDrop(i) ==
    LET current == IF initialized THEN expected ELSE Seq16(i)
    IN  /\ initialized' = TRUE
        /\ UNCHANGED idle
        /\ IF Seq16(i) = current
           THEN /\ ProcessInOrder(i, Seq16(i), states)
                /\ UNCHANGED <<queue, gapAge>>
           ELSE QueueAhead(i)

\* handleVideoMessage, the packet being i.
HandleVideoMessage(i) ==
    LET current == IF initialized THEN expected ELSE Seq16(i)
    IN  /\ initialized' = TRUE
        /\ UNCHANGED idle
        /\ IF Seq16(i) = current
           THEN /\ ProcessInOrder(i, Seq16(i), states)
                /\ UNCHANGED <<queue, gapAge>>
           ELSE IF IsSeqBefore(Seq16(i), current)
           THEN UNCHANGED <<pc, expected, queue, states, lastChannel, high, out, gapAge>>
           ELSE QueueAhead(i)

\* The network keeps a packet for less than half of the sequence space, and an
\* outage is shorter than that: no comparison of circular numbers could order
\* packets further apart.
InWindow(i) == initialized => i - (high + 1) \in -Half .. Half

\* readLoop takes packet i from the socket.  The network keeps its copy, which
\* is a duplicate from now on, until it delivers it again or loses it.
Deliver(i) ==
    /\ pc = "wait"
    /\ i \in net
    /\ InWindow(i)
    /\ SendAck(i)
    /\ HandleVideoMessage(i)
    /\ UNCHANGED <<sent, net>>

\* One turn of the drain loop of processVideoInOrder, or its end.
Drain ==
    /\ pc = "drain"
    /\ IF expected \in DOMAIN queue
       THEN /\ ProcessInOrder(queue[expected], expected, states)
            /\ queue' = [k \in DOMAIN queue \ {expected} |-> queue[k]]
            /\ UNCHANGED idle
       ELSE /\ pc' = "wait"
            /\ idle' = 0
            /\ UNCHANGED <<expected, queue, states, lastChannel, high, out>>
    /\ gapAge' = 0
    /\ UNCHANGED <<station, initialized>>

-----------------------------------------------------------------------------
(* The station, the network and the clock.                                 *)

Unacked == {i \in 0 .. sent - 1 : i \notin acked}

\* A new packet, if the window allows it.
Send ==
    /\ sent < N
    /\ \A i \in Unacked : sent - i < Window
    /\ Cardinality(net) < MaxInFlight
    /\ sent' = sent + 1
    /\ net' = net \cup {sent}
    /\ UNCHANGED <<acked, client, history>>

\* The station sends a packet again until its ACK arrives.
Retransmit(i) ==
    /\ i \in Unacked \ net
    /\ Cardinality(net) < MaxInFlight
    /\ net' = net \cup {i}
    /\ UNCHANGED <<sent, acked, client, history>>

\* The station stops retransmitting a packet: it is lost for good.
Abandon(i) ==
    /\ GiveUp
    /\ i \in Unacked
    /\ acked' = acked \cup {i}
    /\ UNCHANGED <<sent, net, client, history>>

Lose(i) ==
    /\ i \in net
    /\ net' = net \ {i}
    /\ UNCHANGED <<sent, acked, client, history>>

\* Time passes; both clocks stop at Threshold + 1, beyond which the comparison
\* with the threshold no longer tells values apart.
Older(t) == IF t <= Threshold THEN t + 1 ELSE t

Tick ==
    /\ pc = "wait"
    /\ idle' = Older(idle)
    /\ gapAge' = IF DOMAIN queue # {} THEN Older(gapAge) ELSE 0
    /\ UNCHANGED <<station, pc, initialized, expected, queue, states, lastChannel, high, out>>

Next ==
    \/ Send
    \/ Drain
    \/ Tick
    \/ \E i \in Packets : \/ Deliver(i)
                          \/ Retransmit(i)
                          \/ Abandon(i)
                          \/ Lose(i)

Spec == Init /\ [][Next]_vars

\* The readLoop runs; the station goes on sending and retransmitting, and the
\* network neither loses one packet, or its ACK, for ever nor keeps the
\* duplicates of what was acknowledged for ever.
Fairness ==
    /\ WF_vars(Drain)
    /\ WF_vars(Send)
    /\ \A i \in Packets : /\ WF_vars(Retransmit(i))
                          /\ WF_vars(i \in acked /\ Lose(i))
                          /\ SF_vars(Deliver(i) /\ i \in acked')

FairSpec == Spec /\ Fairness

-----------------------------------------------------------------------------
(* Properties.                                                             *)

TypeOK ==
    /\ sent \in 0 .. N
    /\ acked \subseteq Packets
    /\ net \subseteq Packets
    /\ pc \in {"wait", "drain"}
    /\ initialized \in BOOLEAN
    /\ expected \in SeqNo
    /\ DOMAIN queue \subseteq SeqNo
    /\ queue \in [DOMAIN queue -> Packets]
    /\ idle \in 0 .. Threshold + 1
    /\ states \in [Channels -> FrameState]
    /\ lastChannel \in Channels
    /\ high \in -1 .. N - 1
    /\ out \in Seq(Seq(Packets))
    /\ gapAge \in 0 .. Threshold + 1

\* Every frame handed on is whole where it matters: its packets are a header
\* packet and the packets that follow it, none missing, none of another frame.
\* processVideoPacket must guarantee it because "appending would emit a
\* corrupted mixed-frame bitstream" and the decoder's reference chain breaks.
FrameIntegrity ==
    \A n \in 1 .. Len(out) :
        /\ out[n][1] \in First
        /\ \A k \in 2 .. Len(out[n]) : /\ out[n][k] = out[n][1] + k - 1
                                      /\ out[n][k] \notin First

\* Whatever is queued lies beyond the packet processed last: the queue never
\* keeps a packet that was processed or skipped, which a later resync or the
\* next turn of the ring would hand on a second time (handleVideoMessage drops
\* duplicates and late packets, resyncVideoQueue purges).
QueuedIsAhead == \A k \in DOMAIN queue : queue[k] > high

\* Whether the arrival of packet i makes the receiver compare the last sequence
\* number with 0, the one pair isSeqBefore gets wrong: as the number of i with
\* the expected one, or as two numbers in the queue that a resync scans.
ComparesEnds(i) ==
    /\ initialized
    /\ \/ Seq16(i) = MaxSequenceNumber /\ expected = 0
       \/ /\ Seq16(i) # expected /\ ~IsSeqBefore(Seq16(i), expected)
          /\ idle > Threshold \/ Cardinality(DOMAIN Enqueue(i)) > MaxQueued
          /\ {MaxSequenceNumber, 0} \subseteq DOMAIN Enqueue(i)

\* The hypothesis on a step under which the order is right on any number of
\* turns of the ring.
EndsNotCompared == \A i \in Packets : Deliver(i) => ~ComparesEnds(i)

\* The out-of-order queue never ends a step over its limit: a packet that makes
\* it longer forces a resync, which takes at least that one out.
QueueBounded == Cardinality(DOMAIN queue) <= MaxQueued

\* A packet that arrived in time is never thrown away: it leaves the queue only
\* by being processed, whatever order resyncVideoQueue's scan visits the map in.
QueuedNotLost ==
    [][\A k \in DOMAIN queue :
          \/ k \in DOMAIN queue' /\ queue'[k] = queue[k]
          \/ high' = queue[k]]_vars

\* Packets are processed in the order they were sent and at most once, the
\* retransmits and the duplicates of a go-back-N re-burst notwithstanding.
ProcessedInOrder == [][high' = high \/ high' > high]_vars

\* A gap is held open for the resync threshold, counted from when it opened,
\* while the queue has room: what the comment on videoResyncThreshold says.
GapHeldOpen ==
    [][initialized /\ high' > high + 1
          => gapAge > Threshold \/ Cardinality(DOMAIN queue) >= MaxQueued]_vars

\* With a station that keeps retransmitting until its ACK arrives, the receiver
\* gets to the end of the stream and the station stops: this takes the ACK of
\* every packet, also of one that is dropped as a duplicate.
CaughtUp == <>[](high = N - 1 /\ DOMAIN queue = {} /\ Unacked = {})

\* The receiver implements in-order delivery: every step of it takes one packet
\* later than all before, hands on at most the frame that ends there, or changes
\* nothing the rest of the program sees.
Delivery == INSTANCE InOrderDelivery
ImplementsInOrderDelivery == Delivery!Spec
=============================================================================
