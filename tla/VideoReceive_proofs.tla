------------------------- MODULE VideoReceive_proofs -------------------------
(***************************************************************************)
(* The video receiver, for every stream, window, limit and threshold: what *)
(* isSeqBefore computes; that the receiver is type correct, that its queue *)
(* holds only what is still ahead and that it takes packets in order; the  *)
(* bound of the queue; the frames it hands on.  The order is proved on any *)
(* number of turns of the ring of sequence numbers, on one condition: that *)
(* isSeqBefore is not asked about the one pair it gets wrong, the last     *)
(* number and 0.  Where it is, the order is lost (run video_wrap); a       *)
(* stream that ends before the numbers start again never gets there.       *)
(***************************************************************************)
EXTENDS VideoReceive, FiniteSetTheorems, SequenceTheorems, TLAPS

-----------------------------------------------------------------------------
(* Sequence numbers, for every size of their space.                        *)

LEMMA HalfOfRing == Half \in Nat /\ Modulus = 2 * Half + 2
  <1>1. PICK h \in Nat : Modulus = 2 * h
    <2>1. Modulus = 2 * (Modulus \div 2)
      BY ModulusAssumption, SMT
    <2>2. Modulus \div 2 \in Nat
      BY ModulusAssumption, SMT
    <2>3. QED BY <2>1, <2>2
  <1>2. (2 * h - 1) \div 2 = h - 1
    BY ModulusAssumption, <1>1, SMT
  <1>3. QED BY ModulusAssumption, <1>1, <1>2, SMT DEF Half, MaxSequenceNumber

\* isSeqBefore is the order of the ring on every pair less than half of the
\* ring apart, one pair excepted: it does not see that the last sequence number
\* precedes 0, because it folds differences by 65535 and not by 65536.
THEOREM IsSeqBeforeOnRing ==
    ASSUME NEW a \in SeqNo, NEW b \in SeqNo,
           Precedes(a, b) \/ Precedes(b, a)
    PROVE  IsSeqBefore(a, b) <=> Precedes(a, b) /\ ~(a = MaxSequenceNumber /\ b = 0)
  BY HalfOfRing, SMT DEF SeqNo, Precedes, Distance, IsSeqBefore, MaxSequenceNumber

\* Adding one stays in the ring.
LEMMA IncrementInRing ==
    ASSUME NEW s \in SeqNo
    PROVE  IncrementSequence(s) \in SeqNo
  BY ModulusAssumption, SMT DEF SeqNo, IncrementSequence

-----------------------------------------------------------------------------
(* The numbers of a stream, on any number of turns of the ring.            *)

LEMMA MultipleBound ==
    ASSUME NEW m \in Nat, m > 0, NEW z \in Int
    PROVE  /\ z >= 2 => m * z >= 2 * m
           /\ z <= -1 => m * z <= -m
  BY SMT

LEMMA DivisionWithRemainder ==
    ASSUME NEW m \in Nat, m > 0, NEW x \in Nat
    PROVE  /\ x \div m \in Nat
           /\ x % m \in 0 .. m - 1
           /\ x = m * (x \div m) + (x % m)
  BY SMT

\* The remainder moves on with its number, and starts again at 0.
LEMMA RemainderOfSum ==
    ASSUME NEW m \in Nat, m > 0, NEW x \in Nat, NEW d \in 0 .. m - 1
    PROVE  (x + d) % m = IF (x % m) + d < m THEN (x % m) + d ELSE (x % m) + d - m
  <1> DEFINE q == x \div m
             p == (x + d) \div m
             r == x % m
             s == (x + d) % m
  <1>1. q \in Nat /\ r \in 0 .. m - 1 /\ x = m * q + r
    BY DivisionWithRemainder
  <1>2. p \in Nat /\ s \in 0 .. m - 1 /\ x + d = m * p + s
    <2>1. x + d \in Nat
      OBVIOUS
    <2>2. QED BY <2>1, DivisionWithRemainder
  <1> HIDE DEF q, p, r, s
  <1>3. p - q \in Int /\ m * (p - q) = m * p - m * q
    BY <1>1, <1>2, SMT
  <1>4. m * (p - q) = r + d - s
    BY <1>1, <1>2, <1>3
  <1>5. p - q \in 0 .. 1
    <2>1. r + d - s \in Int /\ r + d - s < 2 * m /\ r + d - s > -m
      BY <1>1, <1>2
    <2>2. ~(p - q >= 2) /\ ~(p - q <= -1)
      BY <1>3, <1>4, <2>1, MultipleBound
    <2>3. QED BY <1>3, <2>2
  <1>6. CASE p - q = 0
    <2>1. s = r + d
      BY <1>1, <1>2, <1>4, <1>6
    <2>2. QED BY <1>1, <1>2, <2>1 DEF r, s
  <1>7. CASE p - q = 1
    <2>1. m * (p - q) = m
      BY <1>7
    <2>2. s = r + d - m
      BY <1>1, <1>2, <1>4, <2>1
    <2>3. QED BY <1>1, <1>2, <2>2 DEF r, s
  <1>8. QED BY <1>5, <1>6, <1>7

\* The number of a packet d positions on.
LEMMA SeqMovesOn ==
    ASSUME NEW i \in Nat, NEW d \in 0 .. Modulus - 1
    PROVE  /\ Seq16(i) \in SeqNo
           /\ Seq16(i + d) \in SeqNo
           /\ Seq16(i + d) = IF Seq16(i) + d < Modulus THEN Seq16(i) + d ELSE Seq16(i) + d - Modulus
  <1>1. /\ Modulus \in Nat /\ Modulus > 0
        /\ Start + i \in Nat /\ Start + (i + d) \in Nat
        /\ (Start + i) + d = Start + (i + d)
    BY ModulusAssumption, StreamAssumption DEF SeqNo
  <1>2. (Start + i) % Modulus \in 0 .. Modulus - 1 /\ (Start + (i + d)) % Modulus \in 0 .. Modulus - 1
    BY <1>1, DivisionWithRemainder
  <1>3. ((Start + i) + d) % Modulus
          = IF ((Start + i) % Modulus) + d < Modulus
            THEN ((Start + i) % Modulus) + d ELSE ((Start + i) % Modulus) + d - Modulus
    BY <1>1, RemainderOfSum
  <1>4. QED BY <1>1, <1>2, <1>3 DEF Seq16, SeqNo

\* The number after that of a packet is the number of the next one.
LEMMA IncrementIsNext ==
    ASSUME NEW i \in Nat
    PROVE  IncrementSequence(Seq16(i)) = Seq16(i + 1)
  <1>1. Modulus \in Nat /\ Modulus > 1
    BY ModulusAssumption
  <1>2. /\ Seq16(i) \in 0 .. Modulus - 1
        /\ Seq16(i + 1) = IF Seq16(i) + 1 < Modulus THEN Seq16(i) + 1 ELSE Seq16(i) + 1 - Modulus
    BY <1>1, SeqMovesOn DEF SeqNo
  <1>3. (Seq16(i) + 1) % Modulus = IF Seq16(i) + 1 < Modulus THEN Seq16(i) + 1 ELSE 0
    BY <1>1, <1>2, SMT
  <1>4. QED BY <1>1, <1>2, <1>3 DEF IncrementSequence

\* Packets at most half of the ring apart precede each other as their numbers do.
LEMMA LaterPrecedes ==
    ASSUME NEW a \in Nat, NEW b \in Nat, a < b, b - a <= Half
    PROVE  /\ Seq16(a) \in SeqNo /\ Seq16(b) \in SeqNo
           /\ Precedes(Seq16(a), Seq16(b)) /\ ~Precedes(Seq16(b), Seq16(a))
  <1> DEFINE d == b - a
  <1>1. /\ Half \in Nat /\ Modulus = 2 * Half + 2
        /\ d \in 1 .. Half /\ d \in 0 .. Modulus - 1 /\ a + d = b
    BY HalfOfRing
  <1> HIDE DEF d
  <1>2. /\ Seq16(a) \in SeqNo /\ Seq16(b) \in SeqNo
        /\ Seq16(b) = IF Seq16(a) + d < Modulus THEN Seq16(a) + d ELSE Seq16(a) + d - Modulus
    BY <1>1, SeqMovesOn
  <1>3. Distance(Seq16(a), Seq16(b)) = d /\ Distance(Seq16(b), Seq16(a)) = Modulus - d
    BY <1>1, <1>2, SMT DEF SeqNo, Distance
  <1>4. QED BY <1>1, <1>2, <1>3 DEF Precedes

\* On such packets isSeqBefore is the order of the stream, on whatever turn of
\* the ring they are, unless it is asked about the two ends.
LEMMA IsSeqBeforeIsEarlier ==
    ASSUME NEW a \in Nat, NEW b \in Nat, a - b \in -Half .. Half, a # b,
           ~(Seq16(a) = MaxSequenceNumber /\ Seq16(b) = 0)
    PROVE  /\ Seq16(a) # Seq16(b)
           /\ IsSeqBefore(Seq16(a), Seq16(b)) <=> a < b
  <1>1. Half \in Nat
    BY HalfOfRing
  <1>2. ASSUME NEW s \in SeqNo PROVE ~Precedes(s, s)
    BY <1>2, SMT DEF Precedes, Distance, SeqNo
  <1>3. CASE a < b
    <2>1. /\ Seq16(a) \in SeqNo /\ Seq16(b) \in SeqNo /\ Precedes(Seq16(a), Seq16(b))
      BY <1>1, <1>3, LaterPrecedes
    <2>2. QED BY <1>2, <1>3, <2>1, IsSeqBeforeOnRing
  <1>4. CASE b < a
    <2>1. /\ Seq16(a) \in SeqNo /\ Seq16(b) \in SeqNo
          /\ Precedes(Seq16(b), Seq16(a)) /\ ~Precedes(Seq16(a), Seq16(b))
      BY <1>1, <1>4, LaterPrecedes
    <2>2. ~IsSeqBefore(Seq16(a), Seq16(b))
      BY <2>1, IsSeqBeforeOnRing
    <2>3. QED BY <1>2, <1>4, <2>1, <2>2
  <1>5. QED BY <1>3, <1>4

\* Two packets less than half of the ring apart have different numbers.
LEMMA NumbersDiffer ==
    ASSUME NEW a \in Nat, NEW b \in Nat, a - b \in -Half .. Half, Seq16(a) = Seq16(b)
    PROVE  a = b
  <1>1. MaxSequenceNumber # 0
    BY ModulusAssumption DEF MaxSequenceNumber
  <1>2. QED BY <1>1, IsSeqBeforeIsEarlier

-----------------------------------------------------------------------------
(* The types, and what the proofs about the order share.                   *)

\* The stream ends before the sequence numbers start again at 0.
NoWrap == Start + N < Modulus

LEMMA SmallRemainder ==
    ASSUME NEW m \in Nat, m > 0, NEW x \in 0 .. m - 1
    PROVE  x % m = x
  BY SMT

\* A sequence number is a member of the sequence space.
LEMMA SeqInRing ==
    ASSUME NEW i \in Nat
    PROVE  Seq16(i) \in SeqNo
  <1>1. Start + i \in Nat /\ Modulus \in Nat /\ Modulus > 0
    BY ModulusAssumption, StreamAssumption DEF SeqNo
  <1>2. QED BY <1>1, SMT DEF Seq16, SeqNo

\* Without a wrap a sequence number is the position of its packet, shifted.
LEMMA SeqOfPacket ==
    ASSUME NoWrap, NEW i \in 0 .. N
    PROVE  Seq16(i) = Start + i /\ Seq16(i) \in SeqNo
  <1>1. Start + i \in 0 .. Modulus - 1 /\ Modulus \in Nat /\ Modulus > 0
    BY ModulusAssumption, StreamAssumption DEF NoWrap, SeqNo
  <1>2. QED BY <1>1, SmallRemainder DEF Seq16, SeqNo

-----------------------------------------------------------------------------
(* Frame reassembly.                                                       *)

LEMMA NoFrameType == NoFrame \in FrameState
  BY DEF NoFrame, FrameState

LEMMA ReassembleType ==
    ASSUME NEW i \in Packets, NEW f \in FrameState
    PROVE  Reassemble(i, f) \in FrameState
  <1>1. CASE i \in First
    <2>1. Declared[i] \in Int /\ Bytes[i] \in Nat /\ <<i>> \in Seq(Packets)
      BY <1>1, StreamAssumption
    <2>2. CASE Declared[i] <= 0 \/ Declared[i] > MaxFrame
      BY <1>1, <2>2 DEF Reassemble
    <2>3. CASE ~(Declared[i] <= 0 \/ Declared[i] > MaxFrame)
      <3>1. Declared[i] \in Nat
        BY <2>1, <2>3
      <3>2. QED BY <1>1, <2>1, <2>3, <3>1 DEF Reassemble, FrameState
    <2>4. QED BY <2>2, <2>3
  <1>2. CASE i \notin First
    <2>1. f.bytesRead + Bytes[i] \in Nat /\ Append(f.frameBuf, i) \in Seq(Packets)
      BY StreamAssumption DEF FrameState
    <2>2. QED BY <1>2, <2>1, NoFrameType DEF Reassemble, FrameState
  <1>3. QED BY <1>1, <1>2

LEMMA ProcessType ==
    ASSUME TypeOK, NEW i \in Packets, NEW sts \in [Channels -> FrameState],
           ProcessVideoPacket(i, sts)
    PROVE  /\ lastChannel' \in Channels
           /\ states' \in [Channels -> FrameState]
           /\ out' \in Seq(Seq(Packets))
           /\ high' = i
  <1> DEFINE ch == IF i \in First THEN Channel[i] ELSE lastChannel
             f  == Reassemble(i, sts[ch])
  <1>1. ch \in Channels
    BY StreamAssumption DEF TypeOK
  <1>2. f \in FrameState
    BY <1>1, ReassembleType
  <1>3. f.frameBuf \in Seq(Packets)
    BY <1>2 DEF FrameState
  <1>4. /\ lastChannel' = ch
        /\ states' = [sts EXCEPT ![ch] = IF Complete(f) THEN NoFrame ELSE f]
        /\ out' = IF Complete(f) THEN Append(out, f.frameBuf) ELSE out
        /\ high' = i
    BY DEF ProcessVideoPacket
  <1>5. out' \in Seq(Seq(Packets))
    BY <1>3, <1>4 DEF TypeOK
  <1> HIDE DEF ch, f
  <1>6. states' \in [Channels -> FrameState]
    BY <1>1, <1>2, <1>4, NoFrameType
  <1>7. QED BY <1>1, <1>4, <1>5, <1>6

-----------------------------------------------------------------------------
(* Type correctness.                                                       *)

\* Processing a packet and moving on keeps the types of everything it touches.
LEMMA InOrderType ==
    ASSUME TypeOK, NEW i \in Packets, NEW seq \in SeqNo,
           NEW sts \in [Channels -> FrameState], ProcessInOrder(i, seq, sts)
    PROVE  /\ lastChannel' \in Channels
           /\ states' \in [Channels -> FrameState]
           /\ out' \in Seq(Seq(Packets))
           /\ high' \in -1 .. N - 1
           /\ expected' \in SeqNo
           /\ pc' \in {"wait", "drain"}
  <1>1. ProcessVideoPacket(i, sts) /\ expected' = IncrementSequence(seq) /\ pc' = "drain"
    BY DEF ProcessInOrder
  <1>2. i \in -1 .. N - 1
    BY DEF Packets
  <1>3. QED BY <1>1, <1>2, ProcessType, IncrementInRing

\* The queue with one packet more.
LEMMA EnqueueType ==
    ASSUME TypeOK, NEW i \in Packets
    PROVE  /\ DOMAIN Enqueue(i) = DOMAIN queue \cup {Seq16(i)}
           /\ DOMAIN Enqueue(i) \subseteq SeqNo
           /\ Enqueue(i) \in [DOMAIN Enqueue(i) -> Packets]
           /\ Enqueue(i)[Seq16(i)] = i
           /\ \A k \in DOMAIN queue \ {Seq16(i)} : Enqueue(i)[k] = queue[k]
  <1>1. Seq16(i) \in SeqNo
    BY SeqInRing, StreamAssumption DEF Packets
  <1>2. QED BY <1>1 DEF TypeOK, Enqueue

\* The scan of resyncVideoQueue ends at a queued packet.
LEMMA LowestIsQueued ==
    ASSUME NEW keys
    PROVE  Lowest(keys) \subseteq keys
  BY DEF Lowest

LEMMA ResyncType ==
    ASSUME TypeOK, NEW q, DOMAIN q \subseteq SeqNo, q \in [DOMAIN q -> Packets], Resync(q)
    PROVE  /\ lastChannel' \in Channels
           /\ states' \in [Channels -> FrameState]
           /\ out' \in Seq(Seq(Packets))
           /\ high' \in -1 .. N - 1
           /\ expected' \in SeqNo
           /\ pc' \in {"wait", "drain"}
           /\ DOMAIN queue' \subseteq SeqNo
           /\ queue' \in [DOMAIN queue' -> Packets]
           /\ gapAge' = 0
  <1>1. PICK low \in Lowest(DOMAIN q) :
           /\ queue' = [k \in {s \in DOMAIN q : s # low /\ ~IsSeqBefore(s, low)} |-> q[k]]
           /\ ProcessInOrder(q[low], low, [c \in Channels |-> NoFrame])
           /\ gapAge' = 0
    BY DEF Resync
  <1>2. low \in DOMAIN q /\ low \in SeqNo /\ q[low] \in Packets
    BY LowestIsQueued
  <1>3. [c \in Channels |-> NoFrame] \in [Channels -> FrameState]
    BY NoFrameType
  <1>4. QED BY <1>1, <1>2, <1>3, InOrderType

LEMMA TypeInit == Init => TypeOK
  <1> SUFFICES ASSUME Init PROVE TypeOK
    OBVIOUS
  <1>1. sent \in 0 .. N /\ high \in -1 .. N - 1 /\ lastChannel \in Channels
    BY StreamAssumption DEF Init
  <1>4. expected \in SeqNo
    BY ModulusAssumption DEF Init, SeqNo
  <1>5. idle \in 0 .. Threshold + 1 /\ gapAge \in 0 .. Threshold + 1
    BY LimitAssumption DEF Init
  <1>6. /\ acked \subseteq Packets /\ net \subseteq Packets
        /\ pc \in {"wait", "drain"} /\ initialized \in BOOLEAN
    BY DEF Init
  <1>2. DOMAIN queue \subseteq SeqNo /\ queue \in [DOMAIN queue -> Packets]
    BY DEF Init, EmptyQueue
  <1>3. states \in [Channels -> FrameState] /\ out \in Seq(Seq(Packets))
    BY NoFrameType DEF Init
  <1>7. QED BY <1>1, <1>2, <1>3, <1>4, <1>5, <1>6 DEF TypeOK

LEMMA TypeStep == TypeOK /\ [Next]_vars => TypeOK'
  <1> SUFFICES ASSUME TypeOK, [Next]_vars PROVE TypeOK'
    OBVIOUS
  <1> USE DEF station, client, history
  <1>1. CASE Send
    <2>1. sent' \in 0 .. N /\ sent \in Packets
      BY <1>1, StreamAssumption DEF Send, TypeOK, Packets
    <2>2. net' \subseteq Packets
      BY <1>1, <2>1 DEF Send, TypeOK
    <2>3. QED BY <1>1, <2>1, <2>2 DEF Send, TypeOK
  <1>2. CASE Drain
    <2>1. CASE expected \in DOMAIN queue
      <3>1. ProcessInOrder(queue[expected], expected, states)
        BY <1>2, <2>1 DEF Drain
      <3>2. queue[expected] \in Packets /\ expected \in SeqNo /\ states \in [Channels -> FrameState]
        BY <2>1 DEF TypeOK
      <3>3. /\ lastChannel' \in Channels
            /\ states' \in [Channels -> FrameState]
            /\ out' \in Seq(Seq(Packets))
            /\ high' \in -1 .. N - 1
            /\ expected' \in SeqNo
            /\ pc' \in {"wait", "drain"}
        BY <3>1, <3>2, InOrderType
      <3>4. DOMAIN queue' \subseteq SeqNo /\ queue' \in [DOMAIN queue' -> Packets]
        BY <1>2, <2>1 DEF Drain, TypeOK
      <3>5. /\ UNCHANGED <<sent, acked, net, initialized, idle>>
            /\ gapAge' \in 0 .. Threshold + 1
        BY <1>2, <2>1, LimitAssumption DEF Drain
      <3>6. QED BY <3>3, <3>4, <3>5 DEF TypeOK
    <2>2. CASE expected \notin DOMAIN queue
      BY <1>2, <2>2, LimitAssumption DEF Drain, TypeOK
    <2>3. QED BY <2>1, <2>2
  <1>3. CASE Tick
    <2>1. Threshold \in Nat /\ idle \in 0 .. Threshold + 1 /\ gapAge \in 0 .. Threshold + 1
      BY LimitAssumption DEF TypeOK
    <2>2. /\ idle' = Older(idle)
          /\ gapAge' = IF DOMAIN queue # {} THEN Older(gapAge) ELSE 0
      BY <1>3 DEF Tick
    <2>3. idle' \in 0 .. Threshold + 1 /\ gapAge' \in 0 .. Threshold + 1
      BY <2>1, <2>2 DEF Older
    <2>4. UNCHANGED <<sent, acked, net, pc, initialized, expected, queue, states, lastChannel, high, out>>
      BY <1>3 DEF Tick
    <2>5. QED BY <2>3, <2>4 DEF TypeOK
  <1>4. ASSUME NEW i \in Packets, Deliver(i) PROVE TypeOK'
    <2>1. HandleVideoMessage(i) /\ SendAck(i) /\ UNCHANGED <<sent, net>>
      BY <1>4 DEF Deliver
    <2>2. acked' \subseteq Packets /\ sent' \in 0 .. N /\ net' \subseteq Packets
      BY <2>1 DEF SendAck, TypeOK
    <2>3. initialized' \in BOOLEAN /\ idle' \in 0 .. Threshold + 1
      BY <2>1 DEF HandleVideoMessage, TypeOK
    <2> DEFINE current == IF initialized THEN expected ELSE Seq16(i)
    <2>4. Seq16(i) \in SeqNo
      BY SeqInRing, StreamAssumption DEF Packets
    <2>5. CASE Seq16(i) = current
      <3>1. ProcessInOrder(i, Seq16(i), states) /\ UNCHANGED <<queue, gapAge>>
        BY <2>1, <2>5 DEF HandleVideoMessage
      <3>2. states \in [Channels -> FrameState]
        BY DEF TypeOK
      <3>3. /\ lastChannel' \in Channels
            /\ states' \in [Channels -> FrameState]
            /\ out' \in Seq(Seq(Packets))
            /\ high' \in -1 .. N - 1
            /\ expected' \in SeqNo
            /\ pc' \in {"wait", "drain"}
        BY <2>4, <3>1, <3>2, InOrderType
      <3>4. QED BY <2>2, <2>3, <3>1, <3>3 DEF TypeOK
    <2>6. CASE Seq16(i) # current /\ IsSeqBefore(Seq16(i), current)
      <3>1. UNCHANGED <<pc, expected, queue, states, lastChannel, high, out, gapAge>>
        BY <2>1, <2>6 DEF HandleVideoMessage
      <3>2. QED BY <2>2, <2>3, <3>1 DEF TypeOK
    <2>7. CASE Seq16(i) # current /\ ~IsSeqBefore(Seq16(i), current)
      <3>1. QueueAhead(i)
        BY <2>1, <2>7 DEF HandleVideoMessage
      <3>2. CASE idle > Threshold \/ Cardinality(DOMAIN Enqueue(i)) > MaxQueued
        <4>1. Resync(Enqueue(i))
          BY <3>1, <3>2 DEF QueueAhead
        <4>2. gapAge' \in 0 .. Threshold + 1
          BY <4>1, LimitAssumption DEF Resync
        <4>3. QED BY <2>2, <2>3, <4>1, <4>2, EnqueueType, ResyncType DEF TypeOK
      <3>3. CASE ~(idle > Threshold \/ Cardinality(DOMAIN Enqueue(i)) > MaxQueued)
        <4>1. /\ queue' = Enqueue(i)
              /\ UNCHANGED <<pc, expected, states, lastChannel, high, out, gapAge>>
          BY <3>1, <3>3 DEF QueueAhead
        <4>2. QED BY <2>2, <2>3, <4>1, EnqueueType DEF TypeOK
      <3>4. QED BY <3>2, <3>3
    <2>8. QED BY <2>5, <2>6, <2>7
  <1>5. ASSUME NEW i \in Packets, Retransmit(i) PROVE TypeOK'
    BY <1>5 DEF Retransmit, TypeOK
  <1>6. ASSUME NEW i \in Packets, Abandon(i) PROVE TypeOK'
    BY <1>6 DEF Abandon, TypeOK
  <1>7. ASSUME NEW i \in Packets, Lose(i) PROVE TypeOK'
    BY <1>7 DEF Lose, TypeOK
  <1>8. CASE UNCHANGED vars
    BY <1>8 DEF vars, TypeOK
  <1>9. QED BY <1>1, <1>2, <1>3, <1>4, <1>5, <1>6, <1>7, <1>8 DEF Next

\* Every state of the receiver is well typed: sequence numbers stay in the ring,
\* the queue maps them to packets, and what is reassembled is made of packets.
THEOREM TypeCorrect == Spec => []TypeOK
  BY TypeInit, TypeStep, PTL DEF Spec

-----------------------------------------------------------------------------
(* In-order processing.                                                    *)

\* A queue all of whose entries are ahead of h, under their own sequence
\* number, less than half of the ring away and already sent.
Beyond(q, h) ==
    \A k \in DOMAIN q : /\ k = Seq16(q[k])
                        /\ q[k] > h
                        /\ q[k] - (h + 1) <= Half
                        /\ q[k] < sent

\* The inductive invariant: the expected sequence number is that of the packet
\* after the one processed last, the drain loop left no queued packet with it,
\* and the queue is beyond it.
OrderInv ==
    /\ TypeOK
    /\ high < sent
    /\ net \subseteq 0 .. sent - 1
    /\ ~initialized => high = -1 /\ DOMAIN queue = {} /\ pc = "wait"
    /\ initialized => high >= 0 /\ expected = Seq16(high + 1)
    /\ pc = "wait" /\ initialized => expected \notin DOMAIN queue
    /\ Beyond(queue, high)

LEMMA NumberTypes ==
    ASSUME OrderInv
    PROVE  /\ sent \in 0 .. N /\ high \in -1 .. N - 1 /\ high + 1 \in Nat
           /\ Half \in Nat /\ N \in Nat /\ Packets \subseteq Nat
  BY HalfOfRing, StreamAssumption DEF OrderInv, TypeOK, Packets

\* Two packets that are beyond the same position are ordered by their numbers,
\* unless these are the two ends of the ring.
LEMMA BeyondIsOrdered ==
    ASSUME NEW h \in Int, h >= -1, NEW q, q \in [DOMAIN q -> Packets], Beyond(q, h),
           ~({MaxSequenceNumber, 0} \subseteq DOMAIN q),
           NEW a \in DOMAIN q, NEW b \in DOMAIN q
    PROVE  /\ q[a] \in Nat /\ q[b] \in Nat
           /\ a # b => q[a] # q[b]
           /\ IsSeqBefore(a, b) <=> q[a] < q[b]
  <1>1. q[a] \in Nat /\ q[b] \in Nat
    BY StreamAssumption DEF Packets
  <1>2. /\ a = Seq16(q[a]) /\ q[a] > h /\ q[a] - (h + 1) <= Half
        /\ b = Seq16(q[b]) /\ q[b] > h /\ q[b] - (h + 1) <= Half
    BY DEF Beyond
  <1>3. q[a] - q[b] \in -Half .. Half
    BY <1>1, <1>2, HalfOfRing
  <1>4. ~(a = MaxSequenceNumber /\ b = 0)
    OBVIOUS
  <1>5. CASE a = b
    <2>1. a \in SeqNo
      BY <1>1, <1>2, SeqInRing
    <2>2. ~IsSeqBefore(a, a)
      BY <2>1, HalfOfRing, SMT DEF SeqNo, IsSeqBefore
    <2>3. QED BY <1>1, <1>5, <2>2
  <1>6. CASE a # b
    BY <1>1, <1>2, <1>3, <1>4, <1>6, IsSeqBeforeIsEarlier
  <1>7. QED BY <1>1, <1>5, <1>6

\* A queued packet is processed by a resync; what the purge leaves is beyond it,
\* at whichever entry the scan of the map ended.
LEMMA ResyncOrder ==
    ASSUME OrderInv, NEW q, DOMAIN q \subseteq SeqNo, q \in [DOMAIN q -> Packets],
           ~({MaxSequenceNumber, 0} \subseteq DOMAIN q),
           Beyond(q, high), Resync(q), UNCHANGED sent
    PROVE  /\ high' \in high + 1 .. sent - 1
           /\ expected' = Seq16(high' + 1)
           /\ pc' = "drain"
           /\ Beyond(queue, high)'
  <1>1. PICK low \in Lowest(DOMAIN q) :
           /\ queue' = [k \in {s \in DOMAIN q : s # low /\ ~IsSeqBefore(s, low)} |-> q[k]]
           /\ ProcessInOrder(q[low], low, [c \in Channels |-> NoFrame])
    BY DEF Resync
  <1>2. low \in DOMAIN q /\ low \in SeqNo /\ q[low] \in Packets
    BY LowestIsQueued
  <1>3. high' = q[low] /\ expected' = IncrementSequence(low) /\ pc' = "drain"
    BY <1>1 DEF ProcessInOrder, ProcessVideoPacket
  <1>4. low = Seq16(q[low]) /\ q[low] > high /\ q[low] - (high + 1) <= Half /\ q[low] < sent
    BY <1>2 DEF Beyond
  <1>5. /\ sent \in 0 .. N /\ high \in -1 .. N - 1 /\ Half \in Nat /\ N \in Nat
        /\ Packets \subseteq Nat
    BY NumberTypes
  <1>6. high' \in high + 1 .. sent - 1
    BY <1>2, <1>3, <1>4, <1>5
  <1>7. expected' = Seq16(high' + 1)
    BY <1>2, <1>3, <1>4, <1>5, IncrementIsNext
  <1>8. ASSUME NEW k \in DOMAIN queue'
        PROVE  /\ k = Seq16(queue'[k])
               /\ queue'[k] > high'
               /\ queue'[k] - (high' + 1) <= Half
               /\ queue'[k] < sent'
    <2>1. k \in DOMAIN q /\ k # low /\ ~IsSeqBefore(k, low) /\ queue'[k] = q[k]
      BY <1>1
    <2>2. k = Seq16(q[k]) /\ q[k] - (high + 1) <= Half /\ q[k] < sent
      BY <2>1 DEF Beyond
    <2>3. q[k] \in Nat /\ q[low] \in Nat /\ q[k] # q[low] /\ ~(q[k] < q[low])
      BY <1>2, <1>5, <2>1, BeyondIsOrdered
    <2>4. q[k] > q[low] /\ q[k] - (q[low] + 1) <= Half
      BY <1>4, <1>5, <2>2, <2>3
    <2>5. QED BY <1>3, <2>1, <2>2, <2>4
  <1>9. Beyond(queue, high)'
    BY <1>8 DEF Beyond
  <1>10. QED BY <1>3, <1>6, <1>7, <1>9

LEMMA OrderInit == Init => OrderInv
  BY TypeInit DEF Init, OrderInv, Beyond, EmptyQueue

\* A packet that is neither expected nor before it is beyond the gap.
LEMMA AheadOfGap ==
    ASSUME OrderInv, NEW i \in Packets, initialized, InWindow(i),
           ~(Seq16(i) = MaxSequenceNumber /\ expected = 0),
           Seq16(i) # expected, ~IsSeqBefore(Seq16(i), expected)
    PROVE  i > high + 1 /\ i - (high + 1) <= Half
  <1>1. /\ high + 1 \in Nat /\ i \in Nat /\ Half \in Nat
        /\ expected = Seq16(high + 1) /\ i - (high + 1) \in -Half .. Half
    BY NumberTypes DEF OrderInv, InWindow
  <1>2. i # high + 1
    BY <1>1
  <1>3. ~(i < high + 1)
    BY <1>1, <1>2, IsSeqBeforeIsEarlier
  <1>4. QED BY <1>1, <1>2, <1>3

LEMMA EnqueueBeyond ==
    ASSUME OrderInv, NEW i \in Packets, i < sent, initialized, InWindow(i),
           ~(Seq16(i) = MaxSequenceNumber /\ expected = 0),
           Seq16(i) # expected, ~IsSeqBefore(Seq16(i), expected)
    PROVE  Beyond(Enqueue(i), high)
  <1>1. /\ high \in Int /\ i \in Int /\ Half \in Int
        /\ i > high + 1 /\ i - (high + 1) <= Half
    BY NumberTypes, AheadOfGap
  <1> TypeOK /\ Beyond(queue, high)
    BY DEF OrderInv
  <1>2. ASSUME NEW k \in DOMAIN Enqueue(i)
        PROVE  /\ k = Seq16(Enqueue(i)[k])
               /\ Enqueue(i)[k] > high
               /\ Enqueue(i)[k] - (high + 1) <= Half
               /\ Enqueue(i)[k] < sent
    <2>1. CASE k = Seq16(i)
      <3>1. Enqueue(i)[k] = i
        BY <2>1, EnqueueType
      <3>2. QED BY <1>1, <2>1, <3>1
    <2>2. CASE k # Seq16(i)
      <3>1. k \in DOMAIN queue /\ Enqueue(i)[k] = queue[k]
        BY <2>2, EnqueueType
      <3>2. QED BY <3>1 DEF Beyond
    <2>3. QED BY <2>1, <2>2
  <1>3. QED BY <1>2 DEF Beyond

\* The packets of a queue that is beyond h lie beyond the next one as well, once
\* that one is processed and not among them.
LEMMA BeyondNext ==
    ASSUME OrderInv, NEW k \in DOMAIN queue, k # Seq16(high + 1)
    PROVE  /\ k = Seq16(queue[k])
           /\ queue[k] > high + 1
           /\ queue[k] - ((high + 1) + 1) <= Half
           /\ queue[k] < sent
  <1>1. k = Seq16(queue[k]) /\ queue[k] > high /\ queue[k] - (high + 1) <= Half /\ queue[k] < sent
    BY DEF OrderInv, Beyond
  <1>2. queue[k] \in Nat /\ high \in Int /\ Half \in Int
    BY NumberTypes DEF OrderInv, TypeOK
  <1>3. queue[k] # high + 1
    BY <1>1
  <1>4. QED BY <1>1, <1>2, <1>3

\* The video handler leaves the queue beyond the packet processed last, and
\* processes nothing or a packet later than all before.
LEMMA HandleOrder ==
    ASSUME OrderInv, TypeOK', NEW i \in Packets, i < sent, pc = "wait", InWindow(i),
           ~ComparesEnds(i), HandleVideoMessage(i), UNCHANGED <<sent, net>>
    PROVE  OrderInv' /\ (high' = high \/ high' \in high + 1 .. sent - 1)
  <1> DEFINE current == IF initialized THEN expected ELSE Seq16(i)
  <1>1. /\ sent \in 0 .. N /\ high \in -1 .. N - 1 /\ Half \in Nat /\ N \in Nat
        /\ i \in Nat /\ initialized'
    BY NumberTypes DEF HandleVideoMessage
  <1>2. initialized => ~(Seq16(i) = MaxSequenceNumber /\ expected = 0)
    BY DEF ComparesEnds
  <1>3. CASE Seq16(i) = current
    <2>1. high' = i /\ expected' = IncrementSequence(Seq16(i)) /\ UNCHANGED queue /\ pc' = "drain"
      BY <1>3 DEF HandleVideoMessage, ProcessInOrder, ProcessVideoPacket
    <2>2. expected' = Seq16(high' + 1)
      BY <1>1, <2>1, IncrementIsNext
    <2>3. CASE initialized
      <3>1. i = high + 1 /\ high >= 0
        <4>1. /\ high + 1 \in Nat /\ high >= 0 /\ Seq16(i) = Seq16(high + 1)
              /\ i - (high + 1) \in -Half .. Half
          BY <1>1, <1>3, <2>3 DEF OrderInv, InWindow
        <4>2. QED BY <1>1, <4>1, NumbersDiffer
      <3>2. expected = Seq16(high + 1) /\ expected \notin DOMAIN queue
        BY <2>3 DEF OrderInv
      <3>3. Beyond(queue, high)'
        BY <2>1, <3>1, <3>2, BeyondNext DEF Beyond
      <3>4. QED BY <1>1, <2>1, <2>2, <3>1, <3>3 DEF OrderInv
    <2>4. CASE ~initialized
      <3>1. high = -1 /\ Beyond(queue, high)'
        BY <2>1, <2>4 DEF OrderInv, Beyond
      <3>2. QED BY <1>1, <2>1, <2>2, <3>1 DEF OrderInv
    <2>5. QED BY <2>3, <2>4
  <1>4. CASE Seq16(i) # current /\ IsSeqBefore(Seq16(i), current)
    <2>1. UNCHANGED <<pc, expected, queue, high>> /\ initialized
      BY <1>4 DEF HandleVideoMessage
    <2>2. QED BY <1>1, <2>1 DEF OrderInv, Beyond
  <1>5. CASE Seq16(i) # current /\ ~IsSeqBefore(Seq16(i), current)
    <2>1. QueueAhead(i) /\ initialized
      BY <1>5 DEF HandleVideoMessage
    <2>2. Beyond(Enqueue(i), high)
      BY <1>2, <1>5, <2>1, EnqueueBeyond
    <2>3. CASE idle > Threshold \/ Cardinality(DOMAIN Enqueue(i)) > MaxQueued
      <3>1. Resync(Enqueue(i)) /\ ~({MaxSequenceNumber, 0} \subseteq DOMAIN Enqueue(i))
        BY <1>5, <2>1, <2>3 DEF QueueAhead, ComparesEnds
      <3>2. DOMAIN Enqueue(i) \subseteq SeqNo /\ Enqueue(i) \in [DOMAIN Enqueue(i) -> Packets]
        BY EnqueueType DEF OrderInv
      <3>3. /\ high' \in high + 1 .. sent - 1
            /\ expected' = Seq16(high' + 1)
            /\ pc' = "drain"
            /\ Beyond(queue, high)'
        BY <2>2, <3>1, <3>2, ResyncOrder
      <3>4. QED BY <1>1, <2>1, <3>3 DEF OrderInv
    <2>4. CASE ~(idle > Threshold \/ Cardinality(DOMAIN Enqueue(i)) > MaxQueued)
      <3>1. queue' = Enqueue(i) /\ UNCHANGED <<pc, expected, high>>
        BY <2>1, <2>4 DEF QueueAhead
      <3>2. Beyond(queue, high)'
        BY <2>2, <3>1 DEF Beyond
      <3>3. expected \notin DOMAIN queue'
        <4>1. DOMAIN queue' = DOMAIN queue \cup {Seq16(i)}
          BY <3>1, EnqueueType DEF OrderInv
        <4>2. QED BY <1>5, <2>1, <4>1 DEF OrderInv
      <3>4. QED BY <1>1, <2>1, <3>1, <3>2, <3>3 DEF OrderInv
    <2>5. QED BY <2>3, <2>4
  <1>6. QED BY <1>3, <1>4, <1>5

LEMMA OrderStep ==
    ASSUME OrderInv, [Next]_vars, EndsNotCompared
    PROVE  OrderInv' /\ (high' = high \/ high' \in high + 1 .. sent - 1)
  <1> USE DEF station, client, history
  <1>1. TypeOK'
    BY TypeStep DEF OrderInv
  <1>2. /\ sent \in 0 .. N /\ high \in -1 .. N - 1 /\ Half \in Nat /\ N \in Nat
        /\ Packets \subseteq Nat
    BY NumberTypes
  <1>3. CASE Send
    <2>1. sent' = sent + 1 /\ net' = net \cup {sent} /\ UNCHANGED <<client, history>>
      BY <1>3 DEF Send
    <2>2. Beyond(queue, high)'
      <3>1. queue' = queue /\ high' = high
        BY <2>1
      <3>2. ASSUME NEW k \in DOMAIN queue PROVE queue[k] < sent'
        <4>1. queue[k] \in Nat /\ queue[k] < sent
          BY <1>2 DEF OrderInv, TypeOK, Beyond
        <4>2. QED BY <1>2, <2>1, <4>1
      <3>3. QED BY <3>1, <3>2 DEF OrderInv, Beyond
    <2>3. net' \subseteq 0 .. sent' - 1
      BY <1>2, <2>1 DEF OrderInv
    <2>4. QED BY <1>1, <1>2, <2>1, <2>2, <2>3 DEF OrderInv
  <1>4. CASE Drain
    <2>1. initialized /\ UNCHANGED <<sent, net, initialized>>
      BY <1>4 DEF Drain, OrderInv
    <2>2. CASE expected \in DOMAIN queue
      <3>1. /\ high' = queue[expected]
            /\ expected' = IncrementSequence(expected)
            /\ queue' = [k \in DOMAIN queue \ {expected} |-> queue[k]]
            /\ pc' = "drain"
        BY <1>4, <2>2 DEF Drain, ProcessInOrder, ProcessVideoPacket
      <3>2. queue[expected] \in Nat /\ high + 1 \in Nat
        BY <1>2, <2>2, NumberTypes DEF OrderInv, TypeOK
      <3>3. /\ expected = Seq16(high + 1)
            /\ expected = Seq16(queue[expected]) /\ queue[expected] < sent
            /\ queue[expected] > high /\ queue[expected] - (high + 1) <= Half
        BY <2>1, <2>2 DEF OrderInv, Beyond
      <3>4. high' = high + 1
        <4>1. queue[expected] - (high + 1) \in -Half .. Half
          BY <1>2, <3>2, <3>3
        <4>2. queue[expected] = high + 1
          BY <3>2, <3>3, <4>1, NumbersDiffer
        <4>3. QED BY <3>1, <4>2
      <3>5. expected' = Seq16(high' + 1)
        BY <3>1, <3>2, <3>3, <3>4, IncrementIsNext
      <3>6. ASSUME NEW k \in DOMAIN queue'
            PROVE  /\ k = Seq16(queue'[k])
                   /\ queue'[k] > high'
                   /\ queue'[k] - (high' + 1) <= Half
                   /\ queue'[k] < sent'
        <4>1. k \in DOMAIN queue /\ k # expected /\ queue'[k] = queue[k]
          BY <3>1
        <4>2. QED BY <2>1, <3>3, <3>4, <4>1, BeyondNext
      <3>7. Beyond(queue, high)'
        BY <3>6 DEF Beyond
      <3>8. high' >= 0 /\ high' < sent' /\ high' \in high + 1 .. sent - 1
        BY <1>2, <2>1, <3>1, <3>2, <3>3, <3>4
      <3>9. QED BY <1>1, <2>1, <3>1, <3>5, <3>7, <3>8 DEF OrderInv
    <2>3. CASE expected \notin DOMAIN queue
      <3>1. UNCHANGED <<expected, queue, high>>
        BY <1>4, <2>3 DEF Drain
      <3>2. QED BY <1>1, <2>1, <2>3, <3>1 DEF OrderInv, Beyond
    <2>4. QED BY <2>2, <2>3
  <1>5. CASE Tick
    BY <1>1, <1>5 DEF Tick, OrderInv, Beyond
  <1>6. ASSUME NEW i \in Packets, Deliver(i)
        PROVE  OrderInv' /\ (high' = high \/ high' \in high + 1 .. sent - 1)
    <2>1. i < sent
      BY <1>2, <1>6 DEF Deliver, OrderInv
    <2>2. /\ pc = "wait" /\ InWindow(i) /\ HandleVideoMessage(i) /\ UNCHANGED <<sent, net>>
          /\ ~ComparesEnds(i)
      BY <1>6 DEF Deliver, EndsNotCompared
    <2>3. QED BY <1>1, <2>1, <2>2, HandleOrder
  <1>7. ASSUME NEW i \in Packets, Retransmit(i) PROVE OrderInv' /\ high' = high
    BY <1>1, <1>7 DEF Retransmit, Unacked, OrderInv, Beyond
  <1>8. ASSUME NEW i \in Packets, Abandon(i) PROVE OrderInv' /\ high' = high
    BY <1>1, <1>8 DEF Abandon, OrderInv, Beyond
  <1>9. ASSUME NEW i \in Packets, Lose(i) PROVE OrderInv' /\ high' = high
    BY <1>1, <1>9 DEF Lose, OrderInv, Beyond
  <1>10. CASE UNCHANGED vars
    BY <1>1, <1>10 DEF vars, OrderInv, Beyond
  <1>11. QED BY <1>3, <1>4, <1>5, <1>6, <1>7, <1>8, <1>9, <1>10 DEF Next

\* The same for a step as a behaviour has it, which may stutter.
LEMMA OrderMoves ==
    ASSUME OrderInv, [Next]_vars, [EndsNotCompared]_vars
    PROVE  OrderInv' /\ (high' = high \/ high' \in high + 1 .. sent - 1)
  <1>1. CASE EndsNotCompared
    BY <1>1, OrderStep
  <1>2. CASE UNCHANGED vars
    BY <1>2, TypeStep DEF vars, station, client, history, OrderInv, Beyond
  <1>3. QED BY <1>1, <1>2

\* Nothing processed or skipped stays in the queue, so that no resync can hand a
\* packet on again, however often the sequence numbers start again at 0, as long
\* as isSeqBefore is not asked about the two ends of the ring.
THEOREM QueueStaysAheadOnRing ==
    Spec /\ [][EndsNotCompared]_vars => []QueuedIsAhead
  <1>1. OrderInv => QueuedIsAhead
    BY DEF OrderInv, Beyond, QueuedIsAhead
  <1>2. OrderInv /\ [Next]_vars /\ [EndsNotCompared]_vars => OrderInv'
    BY OrderMoves
  <1>3. QED BY OrderInit, <1>1, <1>2, PTL DEF Spec

\* Packets are processed in order and at most once, under the same condition.
THEOREM InOrderOnRing ==
    Spec /\ [][EndsNotCompared]_vars => ProcessedInOrder
  <1>1. OrderInv /\ [Next]_vars /\ [EndsNotCompared]_vars
          => OrderInv' /\ [high' = high \/ high' > high]_vars
    <2> SUFFICES ASSUME OrderInv, [Next]_vars, [EndsNotCompared]_vars
                 PROVE  OrderInv' /\ (high' = high \/ high' > high)
      OBVIOUS
    <2>1. high \in Int /\ sent \in Int
      BY NumberTypes
    <2>2. QED BY <2>1, OrderMoves
  <1>2. QED BY OrderInit, <1>1, PTL DEF Spec, ProcessedInOrder

\* The condition is needed: in a state the receiver reaches in good order, with 0
\* expected next, the only packet in the window whose number is the last one is
\* the packet processed last, and its duplicate is queued as if it were ahead.
THEOREM ComparedEndsQueueStale ==
    ASSUME OrderInv, NEW i \in Packets, Deliver(i), initialized,
           Seq16(i) = MaxSequenceNumber, expected = 0,
           ~(idle > Threshold \/ Cardinality(DOMAIN Enqueue(i)) > MaxQueued)
    PROVE  i = high /\ ~QueuedIsAhead'
  <1>1. /\ high \in Nat /\ high + 1 \in Nat /\ i \in Nat /\ Half \in Nat
        /\ Seq16(high + 1) = 0 /\ i - (high + 1) \in -Half .. Half
    BY NumberTypes DEF OrderInv, Deliver, InWindow
  <1>2. Modulus \in Nat /\ Modulus = 2 * Half + 2 /\ Modulus >= 4
    BY HalfOfRing, ModulusAssumption
  <1>3. Seq16(high) = MaxSequenceNumber
    <2>1. /\ Seq16(high) \in 0 .. Modulus - 1
          /\ Seq16(high + 1) = IF Seq16(high) + 1 < Modulus THEN Seq16(high) + 1 ELSE Seq16(high) + 1 - Modulus
      <3>1. 1 \in 0 .. Modulus - 1
        BY <1>2
      <3>2. QED BY <1>1, <3>1, SeqMovesOn DEF SeqNo
    <2>2. QED BY <1>1, <1>2, <2>1 DEF MaxSequenceNumber
  <1>4. i # (high + 1) + Half
    <2>1. Seq16((high + 1) + Half) = Half
      <3>1. Half \in 0 .. Modulus - 1 /\ Seq16(high + 1) + Half < Modulus
        BY <1>1, <1>2
      <3>2. Seq16((high + 1) + Half) = Seq16(high + 1) + Half
        BY <1>1, <3>1, SeqMovesOn
      <3>3. QED BY <1>1, <3>2
    <2>2. Half # MaxSequenceNumber
      BY <1>1, <1>2 DEF MaxSequenceNumber
    <2>3. QED BY <2>1, <2>2
  <1>5. i = high
    <2>1. i - high \in -Half .. Half
      BY <1>1, <1>4
    <2>2. QED BY <1>1, <1>3, <2>1, NumbersDiffer
  <1>6. Seq16(i) # expected /\ ~IsSeqBefore(Seq16(i), expected)
    BY <1>1, <1>2, SMT DEF IsSeqBefore, MaxSequenceNumber
  <1>7. queue' = Enqueue(i) /\ high' = high
    BY <1>6 DEF Deliver, HandleVideoMessage, QueueAhead
  <1>8. Seq16(i) \in DOMAIN queue' /\ queue'[Seq16(i)] = i
    BY <1>7, EnqueueType DEF OrderInv
  <1>9. ~(queue'[Seq16(i)] > high')
    BY <1>1, <1>5, <1>7, <1>8
  <1>10. QED BY <1>5, <1>8, <1>9 DEF QueuedIsAhead

\* A stream that does not run past the end of the sequence space never makes the
\* receiver compare the ends: the last number is not in use.
LEMMA NoWrapNoEnds ==
    ASSUME NoWrap, OrderInv
    PROVE  EndsNotCompared
  <1>1. ASSUME NEW i \in Packets PROVE Seq16(i) # MaxSequenceNumber
    <2>1. i \in 0 .. N /\ i < N /\ N \in Nat /\ Start \in Nat /\ Modulus \in Nat
      BY StreamAssumption, ModulusAssumption DEF Packets, SeqNo
    <2>2. Seq16(i) = Start + i
      BY <2>1, SeqOfPacket
    <2>3. QED BY <2>1, <2>2 DEF NoWrap, MaxSequenceNumber
  <1>2. ASSUME NEW i \in Packets PROVE MaxSequenceNumber \notin DOMAIN Enqueue(i)
    <2>1. MaxSequenceNumber \notin DOMAIN queue
      BY <1>1 DEF OrderInv, TypeOK, Beyond
    <2>2. DOMAIN Enqueue(i) = DOMAIN queue \cup {Seq16(i)}
      BY EnqueueType DEF OrderInv
    <2>3. QED BY <1>1, <2>1, <2>2
  <1>3. QED BY <1>1, <1>2 DEF EndsNotCompared, ComparesEnds

\* So the condition of the theorems about the order holds of it at every step.
THEOREM NoWrapNeverComparesEnds ==
    ASSUME NoWrap
    PROVE  Spec => [][EndsNotCompared]_vars
  <1>1. OrderInv => EndsNotCompared
    BY NoWrapNoEnds
  <1>2. OrderInv /\ [Next]_vars => OrderInv' /\ [EndsNotCompared]_vars
    BY <1>1, OrderMoves
  <1>3. QED BY OrderInit, <1>2, PTL DEF Spec

\* The queue of such a stream keeps nothing processed or skipped, with no
\* condition on the steps.
THEOREM QueueStaysAhead ==
    ASSUME NoWrap
    PROVE  Spec => []QueuedIsAhead
  BY NoWrapNeverComparesEnds, QueueStaysAheadOnRing, PTL

\* Its packets are processed in order and at most once.
THEOREM InOrder ==
    ASSUME NoWrap
    PROVE  Spec => ProcessedInOrder
  BY NoWrapNeverComparesEnds, InOrderOnRing, PTL

-----------------------------------------------------------------------------
(* The out-of-order queue: it never ends a step over its limit, and what   *)
(* is queued leaves it only by being processed.                            *)

BoundInv == TypeOK /\ QueueBounded

\* A queue is finite: its keys are sequence numbers.
LEMMA KeysFinite ==
    ASSUME NEW keys, keys \subseteq SeqNo
    PROVE  IsFiniteSet(keys) /\ Cardinality(keys) \in Nat
  <1>1. Modulus - 1 \in Int
    BY ModulusAssumption
  <1>2. IsFiniteSet(SeqNo)
    BY <1>1, FS_Interval DEF SeqNo
  <1>3. IsFiniteSet(keys)
    BY <1>2, FS_Subset
  <1>4. QED BY <1>3, FS_CardinalityType

\* Fewer keys are no more than there were.
LEMMA SmallerQueue ==
    ASSUME NEW more, more \subseteq SeqNo, NEW fewer, fewer \subseteq more
    PROVE  Cardinality(fewer) <= Cardinality(more)
  <1>1. IsFiniteSet(more) /\ fewer \in SUBSET more
    BY KeysFinite
  <1>2. QED BY <1>1, FS_Subset

\* One more packet makes the queue longer by one at most.
LEMMA EnqueueSize ==
    ASSUME BoundInv, NEW i \in Packets
    PROVE  Cardinality(DOMAIN Enqueue(i)) <= MaxQueued + 1
  <1>1. DOMAIN queue \subseteq SeqNo /\ Cardinality(DOMAIN queue) <= MaxQueued /\ MaxQueued \in Nat
    BY LimitAssumption DEF BoundInv, TypeOK, QueueBounded
  <1>2. IsFiniteSet(DOMAIN queue) /\ Cardinality(DOMAIN queue) \in Nat
    BY <1>1, KeysFinite
  <1>3. DOMAIN Enqueue(i) = DOMAIN queue \cup {Seq16(i)}
    BY EnqueueType DEF BoundInv
  <1>4. Cardinality(DOMAIN queue \cup {Seq16(i)})
          = IF Seq16(i) \in DOMAIN queue THEN Cardinality(DOMAIN queue) ELSE Cardinality(DOMAIN queue) + 1
    BY <1>2, FS_AddElement
  <1>5. QED BY <1>1, <1>2, <1>3, <1>4

\* A resync takes out one packet at least, whichever entry its scan ends at.
LEMMA ResyncSize ==
    ASSUME NEW q, DOMAIN q \subseteq SeqNo, Cardinality(DOMAIN q) <= MaxQueued + 1, Resync(q)
    PROVE  Cardinality(DOMAIN queue') <= MaxQueued
  <1>1. PICK low \in Lowest(DOMAIN q) :
           queue' = [k \in {s \in DOMAIN q : s # low /\ ~IsSeqBefore(s, low)} |-> q[k]]
    BY DEF Resync
  <1>2. low \in DOMAIN q
    BY LowestIsQueued
  <1>3. DOMAIN queue' \subseteq DOMAIN q \ {low} /\ DOMAIN q \ {low} \subseteq SeqNo
    BY <1>1
  <1>4. IsFiniteSet(DOMAIN q) /\ Cardinality(DOMAIN q) \in Nat
    BY KeysFinite
  <1>5. Cardinality(DOMAIN q \ {low}) = Cardinality(DOMAIN q) - 1
    BY <1>2, <1>4, FS_RemoveElement
  <1>6. Cardinality(DOMAIN queue') <= Cardinality(DOMAIN q \ {low})
    BY <1>3, SmallerQueue
  <1>7. Cardinality(DOMAIN queue') \in Nat
    BY <1>3, KeysFinite
  <1>8. QED BY <1>4, <1>5, <1>6, <1>7, LimitAssumption

LEMMA BoundInit == Init => BoundInv
  <1> SUFFICES ASSUME Init PROVE QueueBounded
    BY TypeInit DEF BoundInv
  <1>1. DOMAIN queue = {}
    BY DEF Init, EmptyQueue
  <1>2. QED BY <1>1, FS_EmptySet, LimitAssumption DEF QueueBounded

LEMMA BoundStep == BoundInv /\ [Next]_vars => BoundInv'
  <1> SUFFICES ASSUME BoundInv, [Next]_vars PROVE QueueBounded'
    BY TypeStep DEF BoundInv
  <1> USE DEF station, client, history
  <1>1. ASSUME UNCHANGED queue PROVE QueueBounded'
    BY <1>1 DEF BoundInv, QueueBounded
  <1>2. CASE Send
    BY <1>1, <1>2 DEF Send
  <1>3. CASE Drain
    <2>1. DOMAIN queue' \subseteq DOMAIN queue
      BY <1>3 DEF Drain
    <2>2. DOMAIN queue \subseteq SeqNo /\ DOMAIN queue' \subseteq SeqNo
      BY <2>1 DEF BoundInv, TypeOK
    <2>3. Cardinality(DOMAIN queue') <= Cardinality(DOMAIN queue)
      BY <2>1, <2>2, SmallerQueue
    <2>4. Cardinality(DOMAIN queue) \in Nat /\ Cardinality(DOMAIN queue') \in Nat
      BY <2>2, KeysFinite
    <2>5. QED BY <2>3, <2>4, LimitAssumption DEF BoundInv, QueueBounded
  <1>4. CASE Tick
    BY <1>1, <1>4 DEF Tick
  <1>5. ASSUME NEW i \in Packets, Deliver(i) PROVE QueueBounded'
    <2>1. CASE UNCHANGED queue
      BY <1>1, <2>1
    <2>2. CASE QueueAhead(i)
      <3>1. Cardinality(DOMAIN Enqueue(i)) <= MaxQueued + 1 /\ DOMAIN Enqueue(i) \subseteq SeqNo
        BY EnqueueSize, EnqueueType DEF BoundInv
      <3>2. CASE Resync(Enqueue(i))
        BY <3>1, <3>2, ResyncSize DEF QueueBounded
      <3>3. CASE ~(Cardinality(DOMAIN Enqueue(i)) > MaxQueued) /\ queue' = Enqueue(i)
        <4>1. Cardinality(DOMAIN Enqueue(i)) \in Nat
          BY <3>1, KeysFinite
        <4>2. QED BY <3>3, <4>1, LimitAssumption DEF QueueBounded
      <3>4. QED BY <2>2, <3>2, <3>3 DEF QueueAhead
    <2>3. QED BY <1>5, <2>1, <2>2 DEF Deliver, HandleVideoMessage
  <1>6. ASSUME NEW i \in Packets, Retransmit(i) \/ Abandon(i) \/ Lose(i) PROVE QueueBounded'
    BY <1>1, <1>6 DEF Retransmit, Abandon, Lose
  <1>7. CASE UNCHANGED vars
    BY <1>1, <1>7 DEF vars
  <1>8. QED BY <1>2, <1>3, <1>4, <1>5, <1>6, <1>7 DEF Next

\* The queue never ends a step over maxQueuedVideoPackets, for every stream and
\* every network, with sequence numbers that wrap or not.
THEOREM QueueStaysBounded == Spec => []QueueBounded
  <1>1. BoundInv => QueueBounded
    BY DEF BoundInv
  <1>2. QED BY BoundInit, BoundStep, <1>1, PTL DEF Spec

-----------------------------------------------------------------------------
(* Nothing queued is lost.                                                 *)

\* A nonempty set of natural numbers has a least element.
LEMMA LeastElement ==
    ASSUME NEW T, T \subseteq Nat, T # {}
    PROVE  \E x \in T : \A y \in T : ~(y < x)
  <1> DEFINE Order == OpToRel(<, Nat)
  <1>1. IsWellFoundedOn(Order, Nat)
    BY NatLessThanWellFounded, Zenon
  <1>2. \A x, y \in Nat : y < x => <<y, x>> \in Order
    BY DEF OpToRel
  <1> HIDE DEF Order
  <1>3. \E x \in T : \A y \in T : ~(<<y, x>> \in Order)
    BY <1>1, WFMin
  <1>4. QED BY <1>2, <1>3

\* The scan of a queue less than half the ring wide ends at an entry that no
\* other one precedes, in whatever order it visits the map.
LEMMA LowestIsFirst ==
    ASSUME OrderInv, NEW q, q \in [DOMAIN q -> Packets],
           ~({MaxSequenceNumber, 0} \subseteq DOMAIN q),
           DOMAIN q # {}, Beyond(q, high), NEW low \in Lowest(DOMAIN q)
    PROVE  \A s \in DOMAIN q : ~IsSeqBefore(s, low)
  <1> DEFINE first == {k \in DOMAIN q : \A s \in DOMAIN q : ~IsSeqBefore(s, k)}
  <1>1. \A a, b \in DOMAIN q : q[a] \in Nat /\ (IsSeqBefore(a, b) <=> q[a] < q[b])
    BY NumberTypes, BeyondIsOrdered
  <1>2. \E x \in {q[k] : k \in DOMAIN q} : \A y \in {q[k] : k \in DOMAIN q} : ~(y < x)
    <2>1. {q[k] : k \in DOMAIN q} \subseteq Nat /\ {q[k] : k \in DOMAIN q} # {}
      BY <1>1
    <2>2. QED BY <2>1, LeastElement
  <1>3. PICK k \in DOMAIN q : \A s \in DOMAIN q : ~(q[s] < q[k])
    BY <1>2
  <1>4. k \in first
    BY <1>1, <1>3
  <1>5. Lowest(DOMAIN q) = first
    BY <1>4 DEF Lowest
  <1>6. QED BY <1>5

\* A resync takes only the packet out that it processes.
LEMMA ResyncLosesNothing ==
    ASSUME OrderInv, NEW q, q \in [DOMAIN q -> Packets],
           ~({MaxSequenceNumber, 0} \subseteq DOMAIN q),
           Beyond(q, high), Resync(q), NEW k \in DOMAIN q
    PROVE  (k \in DOMAIN queue' /\ queue'[k] = q[k]) \/ high' = q[k]
  <1>1. PICK low \in Lowest(DOMAIN q) :
           /\ queue' = [j \in {s \in DOMAIN q : s # low /\ ~IsSeqBefore(s, low)} |-> q[j]]
           /\ ProcessInOrder(q[low], low, [c \in Channels |-> NoFrame])
    BY DEF Resync
  <1>2. high' = q[low]
    BY <1>1 DEF ProcessInOrder, ProcessVideoPacket
  <1>3. ~IsSeqBefore(k, low)
    BY LowestIsFirst
  <1>4. QED BY <1>1, <1>2, <1>3

\* The key of a queued packet never takes another one: what is delivered under
\* it is the same packet again.
LEMMA EnqueueLosesNothing ==
    ASSUME OrderInv, NEW i \in Packets, i > high, i - (high + 1) <= Half, NEW k \in DOMAIN queue
    PROVE  k \in DOMAIN Enqueue(i) /\ Enqueue(i)[k] = queue[k]
  <1>1. /\ DOMAIN Enqueue(i) = DOMAIN queue \cup {Seq16(i)}
        /\ Enqueue(i)[Seq16(i)] = i
        /\ \A j \in DOMAIN queue \ {Seq16(i)} : Enqueue(i)[j] = queue[j]
    BY EnqueueType DEF OrderInv
  <1>2. /\ k = Seq16(queue[k]) /\ queue[k] > high /\ queue[k] - (high + 1) <= Half
        /\ queue[k] \in Nat /\ i \in Nat /\ high \in Int /\ Half \in Nat
    BY NumberTypes DEF OrderInv, TypeOK, Beyond
  <1>3. queue[k] - i \in -Half .. Half
    BY <1>2
  <1>4. k = Seq16(i) => queue[k] = i
    BY <1>2, <1>3, NumbersDiffer
  <1>5. QED BY <1>1, <1>4

LEMMA NothingLostStep ==
    ASSUME OrderInv, [Next]_vars, [EndsNotCompared]_vars, NEW k \in DOMAIN queue
    PROVE  (k \in DOMAIN queue' /\ queue'[k] = queue[k]) \/ high' = queue[k]
  <1> USE DEF station, client, history
  <1>1. CASE UNCHANGED queue
    BY <1>1
  <1>2. CASE Drain
    BY <1>2 DEF Drain, ProcessInOrder, ProcessVideoPacket
  <1>3. ASSUME NEW i \in Packets, Deliver(i), ~UNCHANGED queue
        PROVE  (k \in DOMAIN queue' /\ queue'[k] = queue[k]) \/ high' = queue[k]
    <2>1. /\ initialized
          /\ Seq16(i) # expected
          /\ ~IsSeqBefore(Seq16(i), expected)
          /\ QueueAhead(i)
      BY <1>3 DEF Deliver, HandleVideoMessage
    <2>2. i < sent /\ InWindow(i) /\ ~ComparesEnds(i)
      <3>1. sent \in Nat
        BY NumberTypes
      <3>2. EndsNotCompared
        BY <1>3 DEF vars, client
      <3>3. QED BY <1>3, <3>1, <3>2 DEF Deliver, OrderInv, EndsNotCompared
    <2>3. ~(Seq16(i) = MaxSequenceNumber /\ expected = 0)
      BY <2>1, <2>2 DEF ComparesEnds
    <2>4. Beyond(Enqueue(i), high) /\ i > high /\ i - (high + 1) <= Half
      <3>1. i \in Int /\ high \in Int
        BY NumberTypes
      <3>2. QED BY <2>1, <2>2, <2>3, <3>1, EnqueueBeyond, AheadOfGap
    <2>5. k \in DOMAIN Enqueue(i) /\ Enqueue(i)[k] = queue[k]
      BY <2>4, EnqueueLosesNothing
    <2>6. CASE idle > Threshold \/ Cardinality(DOMAIN Enqueue(i)) > MaxQueued
      <3>1. Resync(Enqueue(i)) /\ ~({MaxSequenceNumber, 0} \subseteq DOMAIN Enqueue(i))
        BY <2>1, <2>2, <2>6 DEF QueueAhead, ComparesEnds
      <3>2. Enqueue(i) \in [DOMAIN Enqueue(i) -> Packets]
        BY EnqueueType DEF OrderInv
      <3>3. (k \in DOMAIN queue' /\ queue'[k] = Enqueue(i)[k]) \/ high' = Enqueue(i)[k]
        BY <2>4, <2>5, <3>1, <3>2, ResyncLosesNothing
      <3>4. QED BY <2>5, <3>3
    <2>7. CASE queue' = Enqueue(i)
      BY <2>5, <2>7
    <2>8. QED BY <2>1, <2>6, <2>7 DEF QueueAhead
  <1>4. CASE Send \/ Tick \/ \E i \in Packets : Retransmit(i) \/ Abandon(i) \/ Lose(i)
    BY <1>1, <1>4 DEF Send, Tick, Retransmit, Abandon, Lose
  <1>5. CASE UNCHANGED vars
    BY <1>1, <1>5 DEF vars
  <1>6. QED BY <1>1, <1>2, <1>3, <1>4, <1>5 DEF Next

\* A packet that arrived in time leaves the queue only by being processed, on any
\* number of turns of the ring, as long as the two ends are not compared.
THEOREM NothingQueuedLostOnRing ==
    Spec /\ [][EndsNotCompared]_vars => QueuedNotLost
  <1>1. OrderInv /\ [Next]_vars /\ [EndsNotCompared]_vars => OrderInv'
    BY OrderMoves
  <1>2. OrderInv /\ [Next]_vars /\ [EndsNotCompared]_vars
          => [\A k \in DOMAIN queue :
                 \/ k \in DOMAIN queue' /\ queue'[k] = queue[k]
                 \/ high' = queue[k]]_vars
    BY NothingLostStep
  <1>3. QED BY OrderInit, <1>1, <1>2, PTL DEF Spec, QueuedNotLost

\* Without a condition, for a stream that does not use up the sequence space.
THEOREM NothingQueuedLost ==
    ASSUME NoWrap
    PROVE  Spec => QueuedNotLost
  BY NoWrapNeverComparesEnds, NothingQueuedLostOnRing, PTL

-----------------------------------------------------------------------------
(* The frames the receiver hands on: each is an unbroken run of packets,   *)
(* and the receiver implements InOrderDelivery.  This takes, in addition,  *)
(* a station that declares valid frame sizes: on a header with an invalid  *)
(* one processVideoPacket leaves the frame open that was being             *)
(* reassembled, if there is one, and goes on filling it.                   *)

\* Every header declares a size processVideoPacket accepts.
ValidSizes == \A h \in First : Declared[h] > 0 /\ Declared[h] <= MaxFrame

Run(h, i) == Delivery!Run(h, i)

LastOut == Delivery!LastOut

LEMMA RunIsSeq ==
    ASSUME NEW h \in Nat, NEW i \in Nat, h <= i
    PROVE  /\ Run(h, i) \in Seq(Int)
           /\ Len(Run(h, i)) = i - h + 1
           /\ \A k \in 1 .. i - h + 1 : Run(h, i)[k] = h + k - 1
  BY DEF Run, Delivery!Run

LEMMA RunOfOne ==
    ASSUME NEW h \in Nat
    PROVE  <<h>> = Run(h, h)
  BY DEF Run, Delivery!Run

LEMMA RunAppend ==
    ASSUME NEW h \in Nat, NEW i \in Nat, h <= i
    PROVE  Append(Run(h, i), i + 1) = Run(h, i + 1)
  BY RunIsSeq DEF Run, Delivery!Run

\* The frame f under reassembly consists of everything from its header, which
\* was not handed on yet, to packet i.
OpenUpTo(f, i) ==
    \E h \in First : /\ LastOut < h
                     /\ h <= i
                     /\ \A g \in h + 1 .. i : g \notin First
                     /\ f.frameBuf = Run(h, i)

\* Whole frames are what was handed on so far, and what the channel that the
\* next continuation packet is taken to belong to is on the way to.
FrameInv ==
    /\ OrderInv
    /\ FrameIntegrity
    /\ LastOut \in Int
    /\ LastOut <= high
    /\ states[lastChannel].bytesToRead > 0 => initialized /\ OpenUpTo(states[lastChannel], high)

LEMMA FrameInit == Init => FrameInv
  <1> SUFFICES ASSUME Init PROVE FrameInv
    OBVIOUS
  <1>1. OrderInv
    BY OrderInit
  <1>2. out = <<>> /\ high = -1
    BY DEF Init
  <1>3. LastOut = -1 /\ FrameIntegrity
    BY <1>2 DEF LastOut, Delivery!LastOut, FrameIntegrity
  <1>4. states[lastChannel].bytesToRead = 0
    BY StreamAssumption DEF Init, NoFrame
  <1>5. QED BY <1>1, <1>2, <1>3, <1>4 DEF FrameInv

\* One packet later than all before: it is ignored, it extends or starts the
\* frame that ends with it, or it completes that frame, which is handed on.
LEMMA PacketFrame ==
    ASSUME ValidSizes, FrameInv, TypeOK', NEW i \in Packets, i > high,
           NEW sts \in [Channels -> FrameState],
           sts[lastChannel].bytesToRead > 0
               => i = high + 1 /\ OpenUpTo(sts[lastChannel], high),
           ProcessVideoPacket(i, sts)
    PROVE  /\ FrameIntegrity'
           /\ LastOut' \in Int
           /\ LastOut' <= high'
           /\ states'[lastChannel'].bytesToRead > 0 => OpenUpTo(states[lastChannel], high)'
           /\ out' = out \/ \E frame \in Delivery!Frames(i) : out' = Append(out, frame)
  <1> DEFINE ch == IF i \in First THEN Channel[i] ELSE lastChannel
             f  == Reassemble(i, sts[ch])
  <1>1. ch \in Channels /\ f \in FrameState /\ sts[ch] \in FrameState
    BY StreamAssumption, ReassembleType DEF FrameInv, OrderInv, TypeOK
  <1>2. /\ lastChannel' = ch
        /\ states' = [sts EXCEPT ![ch] = IF Complete(f) THEN NoFrame ELSE f]
        /\ out' = IF Complete(f) THEN Append(out, f.frameBuf) ELSE out
        /\ high' = i
    BY DEF ProcessVideoPacket
  <1>3. states'[lastChannel'] = IF Complete(f) THEN NoFrame ELSE f
    BY <1>1, <1>2
  <1>4. /\ i \in Nat /\ high \in Int /\ LastOut \in Int /\ LastOut < i
        /\ out \in Seq(Seq(Packets)) /\ N \in Nat /\ First \subseteq Nat
    <2>1. high \in Int /\ N \in Nat /\ Packets \subseteq Nat /\ First \subseteq Packets
      BY NumberTypes, StreamAssumption DEF FrameInv
    <2>2. LastOut \in Int /\ LastOut <= high /\ out \in Seq(Seq(Packets))
      BY DEF FrameInv, OrderInv, TypeOK
    <2>3. QED BY <2>1, <2>2
  \* What the packet leaves under reassembly on its channel.
  <1>5. f.bytesToRead > 0 => OpenUpTo(f, i)
    <2>1. CASE i \in First
      <3>1. f.frameBuf = <<i>>
        <4>1. ~(Declared[i] <= 0 \/ Declared[i] > MaxFrame)
          BY <2>1, StreamAssumption, LimitAssumption DEF ValidSizes
        <4>2. QED BY <2>1, <4>1 DEF Reassemble
      <3>2. f.frameBuf = Run(i, i) /\ \A g \in i + 1 .. i : g \notin First
        BY <1>4, <3>1, RunOfOne
      <3>3. QED BY <1>4, <2>1, <3>2 DEF OpenUpTo
    <2>2. CASE i \notin First /\ f.bytesToRead > 0
      <3>1. ch = lastChannel
        BY <2>2
      <3>2. sts[ch].bytesToRead > 0
        BY <1>1, <2>2 DEF Reassemble, FrameState
      <3>3. i = high + 1 /\ OpenUpTo(sts[ch], high)
        BY <3>1, <3>2
      <3>4. PICK h \in First : /\ LastOut < h
                               /\ h <= high
                               /\ \A g \in h + 1 .. high : g \notin First
                               /\ sts[ch].frameBuf = Run(h, high)
        BY <3>3 DEF OpenUpTo
      <3>5. f.frameBuf = Append(sts[ch].frameBuf, i)
        BY <2>2, <3>2 DEF Reassemble, NoFrame
      <3>6. h \in Nat /\ high \in Nat
        BY <1>4, <3>4
      <3>7. f.frameBuf = Run(h, i)
        BY <3>3, <3>4, <3>5, <3>6, RunAppend
      <3>8. \A g \in h + 1 .. i : g \notin First
        BY <1>4, <2>2, <3>3, <3>4, <3>6
      <3>9. QED BY <1>4, <3>3, <3>4, <3>6, <3>7, <3>8 DEF OpenUpTo
    <2>3. QED BY <2>1, <2>2
  <1>6. CASE ~Complete(f)
    <2>1. out' = out /\ LastOut' = LastOut /\ FrameIntegrity'
      BY <1>2, <1>6 DEF LastOut, Delivery!LastOut, FrameInv, FrameIntegrity
    <2>2. states'[lastChannel'] = f
      BY <1>3, <1>6
    <2>3. OpenUpTo(f, i) => OpenUpTo(states[lastChannel], high)'
      BY <1>2, <2>1, <2>2 DEF OpenUpTo
    <2>4. QED BY <1>2, <1>4, <1>5, <2>1, <2>2, <2>3
  <1>7. CASE Complete(f)
    <2>1. f.bytesToRead > 0
      BY <1>7 DEF Complete
    <2>2. PICK h \in First : /\ LastOut < h
                             /\ h <= i
                             /\ \A g \in h + 1 .. i : g \notin First
                             /\ f.frameBuf = Run(h, i)
      BY <1>5, <2>1 DEF OpenUpTo
    <2>3. h \in Nat
      BY <1>4
    <2> HIDE DEF ch, f
    <2>4. /\ i - h + 1 \in Nat /\ i - h + 1 >= 1
           /\ Len(Run(h, i)) = i - h + 1
           /\ \A k \in 1 .. i - h + 1 : Run(h, i)[k] = h + k - 1
      <3>1. h \in Nat /\ i \in Nat /\ h <= i
        BY <1>4, <2>2, <2>3
      <3>2. QED BY <3>1, RunIsSeq
    <2>5. Run(h, i) \in Delivery!Frames(i)
      BY <2>2 DEF Delivery!Frames, Run, LastOut
    <2>6. out' = Append(out, Run(h, i))
      BY <1>2, <1>7, <2>2
    <2>7. Run(h, i) \in Seq(Packets)
      BY <1>1, <2>2 DEF FrameState
    <2>8. /\ Len(out') = Len(out) + 1
          /\ out'[Len(out')] = Run(h, i)
          /\ \A n \in 1 .. Len(out) : out'[n] = out[n]
          /\ Len(out) \in Nat
          /\ out' # <<>>
      BY <1>4, <2>6, <2>7, AppendProperties
    <2>9. LastOut' = i
      <3>1. LastOut' = Run(h, i)[Len(Run(h, i))]
        BY <2>8 DEF LastOut, Delivery!LastOut
      <3>2. Run(h, i)[i - h + 1] = h + (i - h + 1) - 1
        BY <2>4
      <3>3. QED BY <1>4, <2>3, <2>4, <3>1, <3>2
    <2>10. FrameIntegrity'
      <3>1. ASSUME NEW n \in 1 .. Len(out')
            PROVE  /\ out'[n][1] \in First
                   /\ \A k \in 2 .. Len(out'[n]) : /\ out'[n][k] = out'[n][1] + k - 1
                                                   /\ out'[n][k] \notin First
        <4>1. CASE n \in 1 .. Len(out)
          BY <2>8, <4>1 DEF FrameInv, FrameIntegrity
        <4>2. CASE n = Len(out')
          <5>1. out'[n] = Run(h, i)
            BY <2>8, <4>2
          <5>2. Run(h, i)[1] = h
            BY <2>3, <2>4
          <5>3. ASSUME NEW k \in 2 .. Len(Run(h, i))
                PROVE  Run(h, i)[k] = h + k - 1 /\ h + k - 1 \notin First
            <6>1. Run(h, i)[k] = h + k - 1 /\ h + k - 1 \in h + 1 .. i
              BY <1>4, <2>3, <2>4
            <6>2. QED BY <2>2, <6>1
          <5>4. QED BY <5>1, <5>2, <5>3
        <4>3. QED BY <2>8, <4>1, <4>2
      <3>2. QED BY <3>1 DEF FrameIntegrity
    <2>11. states'[lastChannel'].bytesToRead = 0
      BY <1>3, <1>7 DEF NoFrame
    <2>12. QED BY <1>2, <1>4, <2>5, <2>6, <2>9, <2>10, <2>11
  <1>8. QED BY <1>6, <1>7

\* A step that processes no packet leaves what matters here alone.
LEMMA QuietFrame ==
    ASSUME FrameInv, OrderInv', UNCHANGED <<states, lastChannel, high, out>>,
           initialized => initialized'
    PROVE  FrameInv'
  BY DEF FrameInv, FrameIntegrity, OpenUpTo, LastOut, Delivery!LastOut

\* A step that processes one packet, if it starts from a frame state that
\* continues at that packet.
LEMMA BusyFrame ==
    ASSUME ValidSizes, FrameInv, OrderInv', initialized', UNCHANGED sent,
           NEW i \in Packets, i > high, NEW seq, NEW sts \in [Channels -> FrameState],
           sts[lastChannel].bytesToRead > 0
               => i = high + 1 /\ OpenUpTo(sts[lastChannel], high),
           ProcessInOrder(i, seq, sts)
    PROVE  FrameInv' /\ Delivery!Take
  <1>1. ProcessVideoPacket(i, sts) /\ TypeOK' /\ high' = i
    BY DEF ProcessInOrder, ProcessVideoPacket, OrderInv
  <1>2. /\ FrameIntegrity'
        /\ LastOut' \in Int
        /\ LastOut' <= high'
        /\ states'[lastChannel'].bytesToRead > 0 => OpenUpTo(states[lastChannel], high)'
        /\ out' = out \/ \E frame \in Delivery!Frames(i) : out' = Append(out, frame)
    BY <1>1, PacketFrame
  <1>3. FrameInv'
    BY <1>2 DEF FrameInv
  <1>4. i \in high + 1 .. sent - 1
    <2>1. i \in Int /\ high \in Int /\ sent \in Int
      BY NumberTypes DEF FrameInv
    <2>2. i < sent
      BY <1>1 DEF OrderInv
    <2>3. QED BY <2>1, <2>2
  <1>5. Delivery!Take
    BY <1>1, <1>2, <1>4 DEF Delivery!Take
  <1>6. QED BY <1>3, <1>5

LEMMA FrameStep ==
    ASSUME ValidSizes, FrameInv, [Next]_vars, [EndsNotCompared]_vars
    PROVE  FrameInv' /\ [Delivery!Next]_<<sent, high, out>>
  <1> USE DEF station, client, history
  <1>1. OrderInv' /\ (high' = high \/ high' \in high + 1 .. sent - 1)
    BY OrderMoves DEF FrameInv
  <1>2. high \in Int /\ sent \in Int /\ lastChannel \in Channels /\ states \in [Channels -> FrameState]
    BY StreamAssumption DEF FrameInv, OrderInv, TypeOK
  <1>3. CASE Send
    <2>1. UNCHANGED <<states, lastChannel, high, out, initialized>> /\ Delivery!Produce
      BY <1>3 DEF Send, Delivery!Produce
    <2>2. QED BY <1>1, <2>1, QuietFrame DEF Delivery!Next
  <1>4. CASE Drain
    <2>1. initialized /\ initialized' /\ UNCHANGED sent
      BY <1>4 DEF Drain, FrameInv, OrderInv
    <2>2. CASE expected \in DOMAIN queue
      <3>1. ProcessInOrder(queue[expected], expected, states)
        BY <1>4, <2>2 DEF Drain
      <3>2. queue[expected] \in Packets /\ queue[expected] > high
        BY <2>2 DEF FrameInv, OrderInv, TypeOK, Beyond
      <3>3. queue[expected] = high + 1
        <4>1. /\ expected = Seq16(high + 1) /\ expected = Seq16(queue[expected])
              /\ queue[expected] > high /\ queue[expected] - (high + 1) <= Half
          BY <2>1, <2>2 DEF FrameInv, OrderInv, Beyond
        <4>2. queue[expected] \in Nat /\ high + 1 \in Nat /\ Half \in Nat
          BY <3>2, NumberTypes DEF FrameInv
        <4>3. queue[expected] - (high + 1) \in -Half .. Half
          BY <1>2, <4>1, <4>2
        <4>4. QED BY <4>1, <4>2, <4>3, NumbersDiffer
      <3>4. states[lastChannel].bytesToRead > 0 => OpenUpTo(states[lastChannel], high)
        BY DEF FrameInv
      <3>5. QED BY <1>1, <1>2, <2>1, <3>1, <3>2, <3>3, <3>4, BusyFrame DEF Delivery!Next
    <2>3. CASE expected \notin DOMAIN queue
      <3>1. UNCHANGED <<states, lastChannel, high, out>>
        BY <1>4, <2>3 DEF Drain
      <3>2. QED BY <1>1, <2>1, <3>1, QuietFrame
    <2>4. QED BY <2>2, <2>3
  <1>5. CASE Tick
    <2>1. UNCHANGED <<sent, states, lastChannel, high, out, initialized>>
      BY <1>5 DEF Tick
    <2>2. QED BY <1>1, <2>1, QuietFrame
  <1>6. ASSUME NEW i \in Packets, Deliver(i)
        PROVE  FrameInv' /\ [Delivery!Next]_<<sent, high, out>>
    <2>1. HandleVideoMessage(i) /\ UNCHANGED sent /\ initialized'
      BY <1>6 DEF Deliver, HandleVideoMessage
    <2> DEFINE current == IF initialized THEN expected ELSE Seq16(i)
    <2>2. CASE Seq16(i) = current
      <3>1. ProcessInOrder(i, Seq16(i), states) /\ high' = i
        BY <2>1, <2>2 DEF HandleVideoMessage, ProcessInOrder, ProcessVideoPacket
      <3>2. i > high /\ (initialized => i = high + 1)
        <4>1. i \in Nat /\ high + 1 \in Nat
          BY NumberTypes DEF FrameInv
        <4>2. CASE initialized
          <5>1. Seq16(i) = Seq16(high + 1) /\ i - (high + 1) \in -Half .. Half
            BY <1>6, <2>2, <4>2 DEF FrameInv, OrderInv, Deliver, InWindow
          <5>2. i = high + 1
            BY <4>1, <5>1, NumbersDiffer
          <5>3. QED BY <1>2, <5>2
        <4>3. CASE ~initialized
          BY <4>3 DEF FrameInv, OrderInv, Packets
        <4>4. QED BY <1>2, <4>1, <4>2, <4>3
      <3>3. states[lastChannel].bytesToRead > 0
               => i = high + 1 /\ OpenUpTo(states[lastChannel], high)
        BY <3>2 DEF FrameInv
      <3>4. QED BY <1>1, <1>2, <2>1, <3>1, <3>2, <3>3, BusyFrame DEF Delivery!Next
    <2>3. CASE UNCHANGED <<states, lastChannel, high, out>>
      BY <1>1, <2>1, <2>3, QuietFrame
    <2>4. CASE Seq16(i) # current /\ ~IsSeqBefore(Seq16(i), current) /\ Resync(Enqueue(i))
      <3>1. PICK low \in Lowest(DOMAIN Enqueue(i)) :
               ProcessInOrder(Enqueue(i)[low], low, [c \in Channels |-> NoFrame])
        BY <2>4 DEF Resync
      <3>2. Enqueue(i)[low] \in Packets
        <4>1. TypeOK
          BY DEF FrameInv, OrderInv
        <4>2. Enqueue(i) \in [DOMAIN Enqueue(i) -> Packets]
          BY <4>1, EnqueueType
        <4>3. low \in DOMAIN Enqueue(i)
          BY LowestIsQueued
        <4>4. QED BY <4>2, <4>3
      <3>3. Enqueue(i)[low] > high
        <4>1. OrderInv /\ i < sent /\ InWindow(i) /\ ~(Seq16(i) = MaxSequenceNumber /\ expected = 0)
          <5>1. CASE EndsNotCompared
            BY <1>2, <1>6, <2>4, <5>1 DEF Deliver, FrameInv, OrderInv, EndsNotCompared, ComparesEnds
          <5>2. CASE UNCHANGED vars
            <6>1. pc' = "drain" /\ pc = "wait"
              BY <1>6, <3>1 DEF Deliver, ProcessInOrder
            <6>2. QED BY <5>2, <6>1 DEF vars
          <5>3. QED BY <5>1, <5>2
        <4>2. initialized /\ ~IsSeqBefore(Seq16(i), expected)
          BY <2>4
        <4>3. Beyond(Enqueue(i), high)
          BY <2>4, <4>1, <4>2, EnqueueBeyond
        <4>4. QED BY <4>3, LowestIsQueued DEF Beyond
      <3>4. [c \in Channels |-> NoFrame] \in [Channels -> FrameState]
        BY NoFrameType
      <3>5. ~([c \in Channels |-> NoFrame][lastChannel].bytesToRead > 0)
        BY <1>2 DEF NoFrame
      <3>6. QED BY <1>1, <2>1, <3>1, <3>2, <3>3, <3>4, <3>5, BusyFrame DEF Delivery!Next
    <2>5. QED BY <2>1, <2>2, <2>3, <2>4 DEF HandleVideoMessage, QueueAhead
  <1>7. ASSUME NEW i \in Packets, Retransmit(i) \/ Abandon(i) \/ Lose(i)
        PROVE  FrameInv' /\ [Delivery!Next]_<<sent, high, out>>
    <2>1. UNCHANGED <<sent, states, lastChannel, high, out, initialized>>
      BY <1>7 DEF Retransmit, Abandon, Lose
    <2>2. QED BY <1>1, <2>1, QuietFrame
  <1>8. CASE UNCHANGED vars
    BY <1>1, <1>8, QuietFrame DEF vars
  <1>9. QED BY <1>3, <1>4, <1>5, <1>6, <1>7, <1>8 DEF Next

\* Every frame handed to the video callback is an unbroken run of the packets of
\* one frame, whatever was lost, repeated or reordered on the way, and however
\* often the sequence numbers start again, if the ends are not compared.
THEOREM FramesAreWholeOnRing ==
    ASSUME ValidSizes
    PROVE  Spec /\ [][EndsNotCompared]_vars => []FrameIntegrity
  <1>1. FrameInv /\ [Next]_vars /\ [EndsNotCompared]_vars => FrameInv'
    BY FrameStep
  <1>2. FrameInv => FrameIntegrity
    BY DEF FrameInv
  <1>3. QED BY FrameInit, <1>1, <1>2, PTL DEF Spec

\* The receiver implements in-order delivery: the initial states map to initial
\* states and each of its steps to taking a packet, to the station's sending
\* one, or to nothing.  The condition is the same.
THEOREM ReceiverImplementsDeliveryOnRing ==
    ASSUME ValidSizes
    PROVE  Spec /\ [][EndsNotCompared]_vars => ImplementsInOrderDelivery
  <1>1. Init => Delivery!Init
    BY DEF Init, Delivery!Init
  <1>2. FrameInv /\ [Next]_vars /\ [EndsNotCompared]_vars
          => FrameInv' /\ [Delivery!Next]_<<sent, high, out>>
    BY FrameStep
  <1>3. QED BY FrameInit, <1>1, <1>2, PTL DEF Spec, ImplementsInOrderDelivery, Delivery!Spec

\* The frames of a stream that does not use up the sequence space are whole.
THEOREM FramesAreWhole ==
    ASSUME NoWrap, ValidSizes
    PROVE  Spec => []FrameIntegrity
  BY NoWrapNeverComparesEnds, FramesAreWholeOnRing, PTL

\* On such a stream the receiver implements in-order delivery.
THEOREM ReceiverImplementsDelivery ==
    ASSUME NoWrap, ValidSizes
    PROVE  Spec => ImplementsInOrderDelivery
  BY NoWrapNeverComparesEnds, ReceiverImplementsDeliveryOnRing, PTL
=============================================================================
