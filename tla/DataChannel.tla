---------------------------- MODULE DataChannel ----------------------------
(***************************************************************************)
(* How a P2P client turns the numbered packets of a command channel (DATA, *)
(* CONTROL) back into the station's messages: pkg/p2p/client.go, the       *)
(* ordered branch of handleDataMessage, parseDataMessage and               *)
(* sortMessageParts, all run by readLoop.                                  *)
(*                                                                         *)
(* The station's messages form one stream of bytes, a header and then the  *)
(* payload of each; a byte is its position in that stream, and a packet    *)
(* carries the bytes between two cuts. Where the cuts are is left open.    *)
(* The station is the go-back-N sender of VideoReceive; any packet it has  *)
(* sent may arrive late, again, out of order or not at all.                *)
(***************************************************************************)
EXTENDS SeqNumbers, SequencesExt

CONSTANTS
    Start,      \* sequence number of the first packet
    Sizes,      \* payload bytes of each message
    Header,     \* P2PDataHeaderBytes
    Magic,      \* bytes of the magic word at the front of a header
    Far,        \* difference from which sortMessageParts assumes a wrap
    MaxPackets, \* bound on the packets the stream is cut into
    Window      \* the station's go-back-N window

ASSUME ChannelAssumption ==
    /\ Start \in SeqNo
    /\ Sizes \in Seq(Nat) /\ Sizes # <<>>
    /\ Magic \in Nat \ {0} /\ Header \in Nat /\ Header >= Magic
    /\ MaxPackets \in Nat \ {0} /\ Window \in Nat \ {0}
    /\ Far \in Nat

Ids == 1 .. Len(Sizes)

\* Where message m ends, and where it begins.
End[m \in 0 .. Len(Sizes)] == IF m = 0 THEN 0 ELSE End[m - 1] + Header + Sizes[m]
Begin(m) == End[m - 1] + 1

Total == End[Len(Sizes)]

Bytes(from, to) == [k \in 1 .. to - from + 1 |-> from + k - 1]
Payload(m) == Bytes(Begin(m) + Header, End[m])

\* The ways to cut the stream, each the ends of its packets.
Cuttings == {c \in UNION {[1 .. k -> 1 .. Total] : k \in 1 .. MaxPackets} :
                /\ \A i, j \in DOMAIN c : i < j => c[i] < c[j]
                /\ c[Len(c)] = Total}

VARIABLES
    \* the station
    ends,        \* where its packets end
    sent,        \* packets 1 .. sent have been sent
    acked,
    \* the client
    pc,          \* readLoop: "wait" for a packet, "parse" one, or look for the "next"
    initialized, \* seqInitialized
    expected,    \* expectedSeqNo
    queue,       \* queuedData: sequence number -> packet
    leftover,    \* leftoverData
    header,      \* builder.header: the message it announced, 0 for none
    bytesRead, parts, \* builder.bytesRead and builder.messages
    seqNo, data, \* the packet being parsed: its number and what is left of it
    \* history
    first,       \* the packet accepted first, 0 when none was
    high,        \* the packet processed last
    out          \* what handleCompleteData got: message and bytes

station == <<ends, sent, acked>>
order   == <<initialized, expected, queue, first, high>>
builder == <<leftover, header, bytesRead, parts, seqNo, data, out>>
vars    == <<station, pc, order, builder>>

Packets   == 1 .. Len(ends)
Seq16(i)  == (Start + i - 1) % Modulus
Content(i) == Bytes((IF i = 1 THEN 0 ELSE ends[i - 1]) + 1, ends[i])

NoParts == [k \in {} |-> <<>>]

Init ==
    /\ ends \in Cuttings
    /\ sent = 0
    /\ acked = {}
    /\ pc = "wait"
    /\ initialized = FALSE
    /\ expected = 0
    /\ queue = NoParts
    /\ leftover = <<>>
    /\ header = 0
    /\ bytesRead = 0
    /\ parts = NoParts
    /\ seqNo = 0
    /\ data = <<>>
    /\ first = 0
    /\ high = 0
    /\ out = <<>>

-----------------------------------------------------------------------------
(* Packets in order.                                                       *)

Send ==
    /\ sent < Len(ends)
    /\ Cardinality(1 .. sent \ acked) < Window
    /\ sent' = sent + 1
    /\ UNCHANGED <<ends, acked, pc, order, builder>>

Put(f, k, v) == [x \in DOMAIN f \cup {k} |-> IF x = k THEN v ELSE f[x]]

\* What handleDataMessage does before parseDataMessage, and the parser's
\* first lines: what was left over goes in front.
StartParse(i) ==
    /\ initialized' = TRUE
    /\ expected' = IncrementSequence(Seq16(i))
    /\ first' = IF initialized THEN first ELSE i
    /\ high' = i
    /\ seqNo' = Seq16(i)
    /\ data' = leftover \o Content(i)
    /\ leftover' = <<>>
    /\ pc' = "parse"
    /\ UNCHANGED <<header, bytesRead, parts, out>>

\* The queue has no bound and there is no resync; what isSeqBefore finds
\* before the expected number is purged.
Accept(i) ==
    IF ~initialized \/ Seq16(i) = expected
    THEN StartParse(i) /\ UNCHANGED queue
    ELSE /\ LET q == Put(queue, Seq16(i), i)
            IN  queue' = [k \in {k \in DOMAIN q : ~IsSeqBefore(k, expected)} |-> q[k]]
         /\ UNCHANGED <<pc, initialized, expected, first, high, builder>>

\* Every packet is acknowledged, whatever becomes of it; the ACK may be lost.
Deliver(i) ==
    /\ pc = "wait"
    /\ i \in 1 .. sent
    /\ acked' \in {acked, acked \cup {i}}
    /\ Accept(i)
    /\ UNCHANGED <<ends, sent>>

\* The loop that empties the queue.
NextQueued ==
    /\ pc = "next"
    /\ IF expected \in DOMAIN queue
       THEN /\ StartParse(queue[expected])
            /\ queue' = [k \in DOMAIN queue \ {expected} |-> queue[k]]
       ELSE pc' = "wait" /\ UNCHANGED <<order, builder>>
    /\ UNCHANGED station

-----------------------------------------------------------------------------
(* One turn of the parser's loop.                                          *)

\* The message whose header d begins with; the magic word must be there whole.
FirstPart(d) == {m \in Ids : Len(d) >= Magic /\
                             SubSeq(d, 1, Magic) = Bytes(Begin(m), Begin(m) + Magic - 1)}

BytesToRead(h) == IF h = 0 THEN 0 ELSE Sizes[h]

PartBefore(a, b) ==
    LET diff == a - b
    IN  IF diff > Far \/ -diff > Far THEN a > b ELSE diff < 0

Join(p, keys) == FlattenSeq([k \in DOMAIN keys |-> p[keys[k]]])

\* sort.Slice
Sorted(K) ==
    CHOOSE s \in [1 .. Cardinality(K) -> K] : \A i, j \in DOMAIN s : i < j => PartBefore(s[i], s[j])

\* Mutant: the parts are sorted by number alone.
SortedByNumber(p) == Join(p, SetToSortSeq(DOMAIN p, <))

SortMessageParts(p) == Join(p, Sorted(DOMAIN p))

\* What is left of a packet behind a message: up to a header's length waits for
\* the next packet.
Rest(d) == IF Len(d) <= Header
           THEN leftover' = d /\ data' = <<>>
           ELSE leftover' = leftover /\ data' = d

\* Mutant: the count of bytes is not reset with the message.
FinishKeepsCount(h, n, p) ==
    IF BytesToRead(h) > 0 /\ n = BytesToRead(h)
    THEN /\ out' = Append(out, [msg |-> h, data |-> SortMessageParts(p)])
         /\ header' = 0 /\ bytesRead' = n /\ parts' = NoParts
    ELSE UNCHANGED out /\ header' = h /\ bytesRead' = n /\ parts' = p

\* The last step of every turn, with p and n the new parts and bytes read.
Finish(h, n, p) ==
    IF BytesToRead(h) > 0 /\ n = BytesToRead(h)
    THEN /\ out' = Append(out, [msg |-> h, data |-> SortMessageParts(p)])
         /\ header' = 0 /\ bytesRead' = 0 /\ parts' = NoParts
    ELSE UNCHANGED out /\ header' = h /\ bytesRead' = n /\ parts' = p

\* Mutant: a short piece of a long message is not kept.
ConsumeForgets(h, had, d) ==
    LET need == BytesToRead(h) - had
    IN  IF Len(d) >= need
        THEN /\ Finish(h, had + need, Put(parts, seqNo, SubSeq(d, 1, need)))
             /\ Rest(SubSeq(d, need + 1, Len(d)))
        ELSE /\ data' = <<>>
             /\ UNCHANGED leftover
             /\ IF Len(d) <= Header
                THEN Finish(h, bytesRead, parts)
                ELSE Finish(h, had + Len(d), Put(parts, seqNo, d))

\* The bytes d belong to message h, of which had are there already.
Consume(h, had, d) ==
    LET need == BytesToRead(h) - had
    IN  IF Len(d) >= need
        THEN /\ Finish(h, had + need, Put(parts, seqNo, SubSeq(d, 1, need)))
             /\ Rest(SubSeq(d, need + 1, Len(d)))
        ELSE /\ data' = <<>>
             /\ IF Len(d) <= Header
                THEN leftover' = d /\ Finish(h, bytesRead, parts)
                ELSE UNCHANGED leftover /\ Finish(h, had + Len(d), Put(parts, seqNo, d))

ParseHeader ==
    \E m \in FirstPart(data) :
        IF Len(data) < Header
        THEN leftover' = data /\ data' = <<>> /\ UNCHANGED <<header, bytesRead, parts, out>>
        ELSE Consume(m, 0, SubSeq(data, Header + 1, Len(data)))

\* Bytes that no header announced are thrown away, unless they are few.
ParseMore ==
    /\ FirstPart(data) = {}
    /\ IF BytesToRead(header) = bytesRead /\ Len(data) > Header
       THEN data' = <<>> /\ UNCHANGED <<leftover, header, bytesRead, parts, out>>
       ELSE Consume(header, bytesRead, data)

Parse ==
    /\ pc = "parse"
    /\ IF data = <<>>
       THEN pc' = "next" /\ UNCHANGED builder
       ELSE (ParseHeader \/ ParseMore) /\ UNCHANGED <<pc, seqNo>>
    /\ UNCHANGED <<station, order>>

Next ==
    \/ Send
    \/ \E i \in Packets : Deliver(i)
    \/ NextQueued
    \/ Parse

Spec == Init /\ [][Next]_vars

\* The station goes on sending what is not acknowledged, and of what is sent
\* again and again something arrives; so does an ACK.
Fairness ==
    /\ WF_vars(Send) /\ WF_vars(Parse) /\ WF_vars(NextQueued)
    /\ \A i \in 1 .. MaxPackets : SF_vars(Deliver(i) /\ i \in acked')

FairSpec == Spec /\ Fairness

-----------------------------------------------------------------------------
(* Properties.                                                             *)

\* Every variable has its type.
TypeOK ==
    /\ ends \in Seq(1 .. Total) /\ sent \in 0 .. Len(ends) /\ acked \subseteq 1 .. sent
    /\ pc \in {"wait", "parse", "next"} /\ initialized \in BOOLEAN
    /\ expected \in SeqNo /\ seqNo \in SeqNo
    /\ DOMAIN queue \subseteq SeqNo /\ \A k \in DOMAIN queue : queue[k] \in 1 .. sent
    /\ leftover \in Seq(1 .. Total) /\ data \in Seq(1 .. Total)
    /\ header \in 0 .. Len(Sizes) /\ bytesRead \in 0 .. BytesToRead(header)
    /\ DOMAIN parts \subseteq SeqNo /\ \A k \in DOMAIN parts : parts[k] \in Seq(1 .. Total)
    /\ first \in 0 .. sent /\ high \in 0 .. sent

\* However the stream is cut and in whatever order its packets come: what is
\* handed on is exactly one message of the station, never a mixture, and
\* messages are handed on in order and once.
MessagesWhole ==
    /\ \A j \in DOMAIN out : out[j].data = Payload(out[j].msg)
    /\ \A j \in DOMAIN out : \A k \in 1 .. j - 1 : out[k].msg < out[j].msg

\* A client that heard the channel from its first packet has handed on every
\* message that the packets it has taken hold, the short ones at the end of a
\* packet included; only a message without a payload is never handed on.
NothingLost ==
    first = 1 /\ pc = "wait" =>
        {out[j].msg : j \in DOMAIN out} = {m \in Ids : Sizes[m] > 0 /\ End[m] <= ends[high]}

\* As long as the station sends again what is not acknowledged, no loss or
\* reordering stalls the channel: every message gets through.
AllAnswered ==
    first = 1 ~> \A m \in Ids : Sizes[m] > 0 => \E j \in DOMAIN out : out[j].msg = m
-----------------------------------------------------------------------------
(* A step on any number of turns of the ring.                              *)

\* A packet arrives less than half of the ring before or after it is expected,
\* and isSeqBefore is not asked about the pair it gets wrong: the last sequence
\* number, come again, when 0 is expected.
InTime ==
    \A i \in Packets : Deliver(i) /\ initialized =>
        i - (high + 1) \in -Half .. Half /\ ~(Seq16(i) = MaxSequenceNumber /\ expected = 0)

\* The packet taken, from the network or from the queue, follows the one before.
TakenInOrder == initialized /\ high' # high => high' = high + 1

\* The parts there are when a packet is taken compare as what came before it.
PartsCompare == high' # high => \A k \in DOMAIN parts : PartBefore(k, seqNo')
=============================================================================
