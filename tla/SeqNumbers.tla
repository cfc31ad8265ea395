----------------------------- MODULE SeqNumbers -----------------------------
(***************************************************************************)
(* The circular sequence numbers of the P2P transport and the comparison   *)
(* the receiver makes on them (pkg/p2p/client.go).  In the program a       *)
(* sequence number is a uint16: Modulus is 65536 there, and any even       *)
(* Modulus gives a ring of the same shape.                                 *)
(***************************************************************************)
EXTENDS Integers

CONSTANT Modulus      \* how many sequence numbers there are

ASSUME ModulusAssumption == /\ Modulus \in Nat
                            /\ Modulus >= 4
                            /\ Modulus % 2 = 0

SeqNo == 0 .. Modulus - 1

MaxSequenceNumber == Modulus - 1

\* Go's integer division of the constant: 65535/2 = 32767.
Half == MaxSequenceNumber \div 2

\* Mutant: the last number of the ring is skipped.
IncrementSkipsLast(seq) == (seq + 1) % MaxSequenceNumber

\* uint16 addition: the whole ring is used, MaxSequenceNumber is followed by 0.
IncrementSequence(seq) == (seq + 1) % Modulus

\* The comparison as it is coded: the difference is folded back by
\* MaxSequenceNumber, one less than the size of the ring.
IsSeqBefore(a, b) ==
    LET diff == a - b
        down == IF diff > Half THEN diff - MaxSequenceNumber ELSE diff
        up   == IF down < -Half THEN down + MaxSequenceNumber ELSE down
    IN  up < 0

\* The distance from a forward to b on the ring, and the order it induces:
\* what a comparison of circular sequence numbers is meant to compute.
Distance(a, b) == IF a <= b THEN b - a ELSE b - a + Modulus

Precedes(a, b) == Distance(a, b) \in 1 .. Half
=============================================================================
