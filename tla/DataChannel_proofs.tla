-------------------------- MODULE DataChannel_proofs --------------------------
(***************************************************************************)
(* The data channel of a P2P client: for every stream of messages and      *)
(* every way to cut it into packets, what is handed on are the station's   *)
(* messages, whole, in order and once (MessagesWhole), and a client that   *)
(* heard the channel from its first packet hands on all of them            *)
(* (NothingLost).  This holds on any number of turns of the ring of        *)
(* sequence numbers as long as packets come in time (InTime) and the parts *)
(* of one message compare as they were sent (PartsCompare); and, when the  *)
(* stream is short (FewPackets), in whatever order its packets come and    *)
(* however late.                                                           *)
(***************************************************************************)
EXTENDS DataChannel, FiniteSetTheorems, SequenceTheorems, NaturalsInduction,
        WellFoundedInduction, TLAPS

\* What sortMessageParts needs of the numbers: that no two packets have the same,
\* and that those of a message which wraps are near the ends of the ring.
FewPackets == /\ MaxPackets < Modulus /\ MaxPackets <= Far + 1
              /\ Start + MaxPackets <= Modulus \/ MaxPackets <= Modulus - Far

-----------------------------------------------------------------------------
(* Numbers.                                                                *)

\* Induction on the members of a set, from the least number that is not one.
LEMMA InductiveSet ==
    ASSUME NEW S, 0 \in S, \A n \in Nat : n \in S => n + 1 \in S
    PROVE  \A n \in Nat : n \in S
  <1>. DEFINE T == {n \in Nat : n \notin S}
              Order == OpToRel(<, Nat)
  <1>1. IsWellFoundedOn(Order, Nat)
    BY NatLessThanWellFounded, Zenon
  <1>2. \A x, y \in Nat : y < x => <<y, x>> \in Order
    BY DEF OpToRel
  <1>. SUFFICES ASSUME T # {} PROVE FALSE
    OBVIOUS
  <1>3. T \subseteq Nat
    OBVIOUS
  <1>. HIDE DEF Order, T
  <1>4. PICK x \in T : \A y \in T : ~(<<y, x>> \in Order)
    BY <1>1, <1>3, WFMin
  <1>5. x \in Nat /\ x \notin S
    BY DEF T
  <1>6. x - 1 \in Nat /\ (x - 1) + 1 = x /\ x - 1 < x
    BY <1>5
  <1>7. x - 1 \in T
    BY <1>5, <1>6 DEF T
  <1>8. QED BY <1>2, <1>4, <1>5, <1>6, <1>7

LEMMA Constants ==
    /\ Modulus \in Nat /\ Modulus >= 4
    /\ Start \in 0 .. Modulus - 1
    /\ Len(Sizes) \in Nat \ {0} /\ \A m \in 1 .. Len(Sizes) : Sizes[m] \in Nat
    /\ Magic \in Nat /\ Magic > 0 /\ Header \in Nat /\ Header >= Magic
    /\ MaxPackets \in Nat /\ MaxPackets > 0 /\ Far \in Nat
  <1>1. Sizes \in Seq(Nat) /\ Sizes # <<>>
    BY ChannelAssumption
  <1>2. Len(Sizes) \in Nat \ {0} /\ \A m \in 1 .. Len(Sizes) : Sizes[m] \in Nat
    BY <1>1
  <1>3. QED BY <1>2, ModulusAssumption, ChannelAssumption DEF SeqNo

LEMMA MultipleBound ==
    ASSUME NEW m \in Nat, m > 0, NEW z \in Int
    PROVE  /\ z >= 2 => m * z >= 2 * m
           /\ z <= -1 => m * z <= -m
  BY SMT

LEMMA DivisionWithRemainder ==
    ASSUME NEW m \in Nat, m > 0, NEW x \in Nat
    PROVE  /\ x \div m \in Nat
           /\ x % m \in 0 .. m - 1
           /\ x = m * (x \div m) + (x % m)
  BY SMT

\* The remainder moves on with its number, and starts again at 0.
LEMMA RemainderOfSum ==
    ASSUME NEW m \in Nat, m > 0, NEW x \in Nat, NEW d \in 0 .. m - 1
    PROVE  (x + d) % m = IF (x % m) + d < m THEN (x % m) + d ELSE (x % m) + d - m
  <1>. DEFINE q == x \div m
              p == (x + d) \div m
              r == x % m
              s == (x + d) % m
  <1>1. q \in Nat /\ r \in 0 .. m - 1 /\ x = m * q + r
    BY DivisionWithRemainder
  <1>2. p \in Nat /\ s \in 0 .. m - 1 /\ x + d = m * p + s
    <2>1. x + d \in Nat
      OBVIOUS
    <2>2. QED BY <2>1, DivisionWithRemainder
  <1>. HIDE DEF q, p, r, s
  <1>3. p - q \in Int /\ m * (p - q) = m * p - m * q
    BY <1>1, <1>2, SMT
  <1>4. m * (p - q) = r + d - s
    BY <1>1, <1>2, <1>3
  <1>5. p - q \in 0 .. 1
    <2>1. r + d - s \in Int /\ r + d - s < 2 * m /\ r + d - s > -m
      BY <1>1, <1>2
    <2>2. ~(p - q >= 2) /\ ~(p - q <= -1)
      BY <1>3, <1>4, <2>1, MultipleBound
    <2>3. QED BY <1>3, <2>2
  <1>6. CASE p - q = 0
    <2>1. s = r + d
      BY <1>1, <1>2, <1>4, <1>6
    <2>2. QED BY <1>1, <1>2, <2>1 DEF r, s
  <1>7. CASE p - q = 1
    <2>1. m * (p - q) = m
      BY <1>7
    <2>2. s = r + d - m
      BY <1>1, <1>2, <1>4, <2>1
    <2>3. QED BY <1>1, <1>2, <2>2 DEF r, s
  <1>8. QED BY <1>5, <1>6, <1>7

\* The number of a packet, and of the packet d positions on.
LEMMA SeqMovesOn ==
    ASSUME NEW i \in Nat \ {0}, NEW d \in 0 .. Modulus - 1
    PROVE  /\ Seq16(i) \in SeqNo /\ Seq16(i + d) \in SeqNo
           /\ Seq16(i + d) = IF Seq16(i) + d < Modulus THEN Seq16(i) + d ELSE Seq16(i) + d - Modulus
  <1>. DEFINE x == Start + i - 1
  <1>1. Modulus \in Nat /\ Modulus > 0 /\ x \in Nat /\ x + d \in Nat /\ x + d = Start + (i + d) - 1
    BY Constants
  <1>. HIDE DEF x
  <1>2. x % Modulus \in 0 .. Modulus - 1 /\ (x + d) % Modulus \in 0 .. Modulus - 1
    BY <1>1, DivisionWithRemainder
  <1>3. (x + d) % Modulus = IF (x % Modulus) + d < Modulus
                            THEN (x % Modulus) + d ELSE (x % Modulus) + d - Modulus
    BY <1>1, RemainderOfSum
  <1>4. Seq16(i) = x % Modulus /\ Seq16(i + d) = (x + d) % Modulus
    BY <1>1 DEF Seq16, x
  <1>5. QED BY <1>2, <1>3, <1>4 DEF SeqNo

LEMMA NextNumber ==
    ASSUME NEW i \in Nat \ {0}
    PROVE  /\ IncrementSequence(Seq16(i)) = Seq16(i + 1)
           /\ Seq16(i) \in SeqNo /\ Seq16(i + 1) \in SeqNo
  <1>1. Modulus \in Nat /\ Modulus > 1 /\ 1 \in 0 .. Modulus - 1
    BY Constants
  <1>2. /\ Seq16(i) \in SeqNo /\ Seq16(i + 1) \in SeqNo
        /\ Seq16(i + 1) = IF Seq16(i) + 1 < Modulus THEN Seq16(i) + 1 ELSE Seq16(i) + 1 - Modulus
    BY <1>1, SeqMovesOn
  <1>3. (Seq16(i) + 1) % Modulus = IF Seq16(i) + 1 < Modulus THEN Seq16(i) + 1 ELSE 0
    BY <1>1, <1>2, SMT DEF SeqNo
  <1>4. QED BY <1>1, <1>2, <1>3 DEF IncrementSequence, SeqNo

\* Two packets less than a turn of the ring apart have different numbers.
LEMMA NumbersDiffer ==
    ASSUME NEW i \in Nat \ {0}, NEW j \in Nat \ {0}, i - j < Modulus, j - i < Modulus,
           Seq16(i) = Seq16(j)
    PROVE  i = j
  <1>1. ASSUME NEW a \in Nat \ {0}, NEW b \in Nat \ {0}, a < b, b - a < Modulus
        PROVE  Seq16(a) # Seq16(b)
    <2>. DEFINE d == b - a
    <2>1. d \in 0 .. Modulus - 1 /\ d > 0 /\ a + d = b /\ Modulus \in Nat
      BY <1>1, Constants
    <2>. HIDE DEF d
    <2>2. /\ Seq16(a) \in 0 .. Modulus - 1
          /\ Seq16(b) = IF Seq16(a) + d < Modulus THEN Seq16(a) + d ELSE Seq16(a) + d - Modulus
      BY <2>1, SeqMovesOn DEF SeqNo
    <2>3. QED BY <2>1, <2>2
  <1>2. QED BY <1>1

LEMMA HalfOfRing == Half \in Nat /\ Modulus = 2 * Half + 2
  <1>1. PICK h \in Nat : Modulus = 2 * h
    <2>1. Modulus = 2 * (Modulus \div 2)
      BY ModulusAssumption, SMT
    <2>2. Modulus \div 2 \in Nat
      BY ModulusAssumption, SMT
    <2>3. QED BY <2>1, <2>2
  <1>2. (2 * h - 1) \div 2 = h - 1
    BY ModulusAssumption, <1>1, SMT
  <1>3. QED BY ModulusAssumption, <1>1, <1>2, SMT DEF Half, MaxSequenceNumber

\* isSeqBefore finds a late packet before the expected one, unless it is asked
\* about the two ends of the ring.
LEMMA LateIsBefore ==
    ASSUME NEW i \in Nat \ {0}, NEW j \in Nat \ {0}, i < j, j - i <= Half,
           ~(Seq16(i) = MaxSequenceNumber /\ Seq16(j) = 0)
    PROVE  IsSeqBefore(Seq16(i), Seq16(j))
  <1>. DEFINE d == j - i
              a == Seq16(i)
              b == Seq16(j)
  <1>1. d \in 1 .. Half /\ d \in 0 .. Modulus - 1 /\ i + d = j
    BY HalfOfRing
  <1>. HIDE DEF d
  <1>2. a \in 0 .. Modulus - 1 /\ b \in 0 .. Modulus - 1 /\ b = IF a + d < Modulus THEN a + d ELSE a + d - Modulus
    BY <1>1, SeqMovesOn DEF SeqNo
  <1>3. ~(a = MaxSequenceNumber /\ b = 0)
    OBVIOUS
  <1>. HIDE DEF a, b
  <1>4. CASE a + d < Modulus
    <2>1. a - b = -d
      BY <1>1, <1>2, <1>4
    <2>2. QED BY <1>1, <2>1, HalfOfRing, SMT DEF a, b, IsSeqBefore, MaxSequenceNumber
  <1>5. CASE ~(a + d < Modulus)
    <2>1. a - b = Modulus - d /\ d # 1
      BY <1>1, <1>2, <1>3, <1>5, HalfOfRing DEF MaxSequenceNumber
    <2>2. QED BY <1>1, <2>1, HalfOfRing, SMT DEF a, b, IsSeqBefore, MaxSequenceNumber
  <1>6. QED BY <1>4, <1>5

\* sortMessageParts never finds two parts each before the other.
LEMMA PartBeforeIsStrict ==
    ASSUME NEW a \in SeqNo, NEW b \in SeqNo, PartBefore(a, b)
    PROVE  a # b /\ ~PartBefore(b, a)
  BY Constants DEF PartBefore, SeqNo

\* Its order is that of packets so close together that a difference over Far is a
\* wrap, wherever on the ring they are.
THEOREM NearPartsCompare ==
    ASSUME NEW i \in Nat \ {0}, NEW j \in Nat \ {0}, i < j, j - i <= Far, j - i < Modulus - Far
    PROVE  PartBefore(Seq16(i), Seq16(j))
  <1>. DEFINE d == j - i
              a == Seq16(i)
              b == Seq16(j)
  <1>1. d \in 1 .. Far /\ d < Modulus - Far /\ d \in 0 .. Modulus - 1 /\ i + d = j
    BY Constants
  <1>. HIDE DEF d
  <1>2. a \in 0 .. Modulus - 1 /\ b = IF a + d < Modulus THEN a + d ELSE a + d - Modulus
    BY <1>1, SeqMovesOn DEF SeqNo
  <1>. HIDE DEF a, b
  <1>3. IF a - b > Far \/ -(a - b) > Far THEN a > b ELSE a - b < 0
    BY <1>1, <1>2, Constants
  <1>4. QED BY <1>3 DEF a, b, PartBefore

\* In a stream of few packets it is the order of all.
LEMMA PartOrder ==
    ASSUME FewPackets, NEW i \in 1 .. MaxPackets, NEW j \in 1 .. MaxPackets, i < j
    PROVE  PartBefore(Seq16(i), Seq16(j))
  <1>. DEFINE first1 == Seq16(1)
              a == Seq16(i)
              b == Seq16(j)
  <1>1. /\ 1 \in Nat \ {0} /\ i - 1 \in 0 .. Modulus - 1 /\ j - 1 \in 0 .. Modulus - 1
        /\ 1 + (i - 1) = i /\ 1 + (j - 1) = j
    BY Constants DEF FewPackets
  <1>2. first1 = Start
    <2>1. Start + 1 - 1 = Start /\ Start \in Nat /\ Modulus \in Nat /\ Start < Modulus
      BY Constants
    <2>2. Start % Modulus = Start
      BY <2>1, SMT
    <2>3. QED BY <2>1, <2>2 DEF Seq16
  <1>3. /\ a = IF first1 + (i - 1) < Modulus THEN first1 + (i - 1) ELSE first1 + (i - 1) - Modulus
        /\ b = IF first1 + (j - 1) < Modulus THEN first1 + (j - 1) ELSE first1 + (j - 1) - Modulus
    <2>1. Seq16(1 + (i - 1)) = IF first1 + (i - 1) < Modulus THEN first1 + (i - 1) ELSE first1 + (i - 1) - Modulus
      BY <1>1, SeqMovesOn
    <2>2. Seq16(1 + (j - 1)) = IF first1 + (j - 1) < Modulus THEN first1 + (j - 1) ELSE first1 + (j - 1) - Modulus
      BY <1>1, SeqMovesOn
    <2>3. QED BY <1>1, <2>1, <2>2
  <1>. HIDE DEF a, b, first1
  <1>4. IF a - b > Far \/ -(a - b) > Far THEN a > b ELSE a - b < 0
    BY <1>2, <1>3, Constants DEF FewPackets
  <1>5. QED BY <1>4 DEF a, b, PartBefore

-----------------------------------------------------------------------------
(* Bytes.                                                                  *)

LEMMA BytesAre ==
    ASSUME NEW a \in Nat, NEW b \in Nat, a <= b
    PROVE  /\ Bytes(a + 1, b) = [k \in 1 .. b - a |-> a + k]
           /\ Bytes(a + 1, b) \in Seq(Nat)
           /\ Len(Bytes(a + 1, b)) = b - a
           /\ b <= Total /\ Total \in Nat => Bytes(a + 1, b) \in Seq(1 .. Total)
  <1>1. Bytes(a + 1, b) = [k \in 1 .. b - a |-> a + k]
    BY DEF Bytes
  <1>2. b - a \in Nat /\ \A k \in 1 .. b - a : a + k \in Nat /\ a + k >= 1 /\ a + k <= b
    OBVIOUS
  <1>3. Bytes(a + 1, b) \in Seq(Nat) /\ Len(Bytes(a + 1, b)) = b - a
    BY <1>1, <1>2
  <1>4. b <= Total /\ Total \in Nat => Bytes(a + 1, b) \in Seq(1 .. Total)
    <2>. SUFFICES ASSUME b <= Total, Total \in Nat PROVE Bytes(a + 1, b) \in Seq(1 .. Total)
      OBVIOUS
    <2>1. \A k \in 1 .. b - a : a + k \in 1 .. Total
      BY <1>2
    <2>2. QED BY <1>1, <1>2, <2>1
  <1>5. QED BY <1>1, <1>3, <1>4

LEMMA BytesJoin ==
    ASSUME NEW a \in Nat, NEW b \in Nat, NEW c \in Nat, a <= b, b <= c
    PROVE  Bytes(a + 1, b) \o Bytes(b + 1, c) = Bytes(a + 1, c)
  <1>. DEFINE s == Bytes(a + 1, b)
              t == Bytes(b + 1, c)
              u == Bytes(a + 1, c)
  <1>1. /\ s = [k \in 1 .. b - a |-> a + k] /\ s \in Seq(Nat) /\ Len(s) = b - a
        /\ t = [k \in 1 .. c - b |-> b + k] /\ t \in Seq(Nat) /\ Len(t) = c - b
        /\ u = [k \in 1 .. c - a |-> a + k] /\ u \in Seq(Nat) /\ Len(u) = c - a
    BY BytesAre
  <1>. HIDE DEF s, t, u
  <1>2. s \o t \in Seq(Nat) /\ Len(s \o t) = Len(u)
    BY <1>1
  <1>3. \A k \in 1 .. Len(u) : (s \o t)[k] = u[k]
    <2>. TAKE k \in 1 .. Len(u)
    <2>1. (s \o t)[k] = IF k <= Len(s) THEN s[k] ELSE t[k - Len(s)]
      BY <1>1
    <2>2. CASE k <= Len(s)
      BY <1>1, <2>1, <2>2
    <2>3. CASE k > Len(s)
      <3>1. k - (b - a) \in 1 .. c - b
        BY <1>1, <2>3
      <3>2. t[k - (b - a)] = b + (k - (b - a))
        BY <1>1, <3>1
      <3>3. QED BY <1>1, <2>1, <2>3, <3>2
    <2>4. QED BY <1>1, <2>2, <2>3
  <1>4. s \o t = u
    BY <1>1, <1>2, <1>3, SeqEqual
  <1>5. QED BY <1>4 DEF s, t, u

LEMMA BytesSub ==
    ASSUME NEW a \in Nat, NEW b \in Nat, NEW k \in Nat, a + k <= b
    PROVE  /\ SubSeq(Bytes(a + 1, b), 1, k) = Bytes(a + 1, a + k)
           /\ SubSeq(Bytes(a + 1, b), k + 1, b - a) = Bytes(a + k + 1, b)
  <1>. DEFINE s == Bytes(a + 1, b)
  <1>1. s = [j \in 1 .. b - a |-> a + j] /\ s \in Seq(Nat) /\ Len(s) = b - a
    BY BytesAre
  <1>2. /\ Bytes(a + 1, a + k) = [j \in 1 .. k |-> a + j]
        /\ Bytes(a + 1, a + k) \in Seq(Nat) /\ Len(Bytes(a + 1, a + k)) = k
    BY BytesAre
  <1>3. /\ Bytes(a + k + 1, b) = [j \in 1 .. b - (a + k) |-> a + k + j]
        /\ Bytes(a + k + 1, b) \in Seq(Nat) /\ Len(Bytes(a + k + 1, b)) = b - (a + k)
    <2>. DEFINE c == a + k
    <2>1. c \in Nat /\ c <= b
      OBVIOUS
    <2>. HIDE DEF c
    <2>2. /\ Bytes(c + 1, b) = [j \in 1 .. b - c |-> c + j]
          /\ Bytes(c + 1, b) \in Seq(Nat) /\ Len(Bytes(c + 1, b)) = b - c
      BY <2>1, BytesAre
    <2>3. QED BY <2>2 DEF c
  <1>. HIDE DEF s
  <1>4. SubSeq(s, 1, k) = Bytes(a + 1, a + k)
    <2>1. SubSeq(s, 1, k) = [j \in 1 .. k |-> s[j]]
      BY <1>1
    <2>2. \A j \in 1 .. k : s[j] = a + j
      BY <1>1
    <2>3. QED BY <1>2, <2>1, <2>2
  <1>5. SubSeq(s, k + 1, b - a) = Bytes(a + k + 1, b)
    <2>1. SubSeq(s, k + 1, b - a) = [j \in 1 .. b - (a + k) |-> s[k + j]]
      BY <1>1
    <2>2. \A j \in 1 .. b - (a + k) : s[k + j] = a + k + j
      BY <1>1
    <2>3. QED BY <1>3, <2>1, <2>2
  <1>6. QED BY <1>4, <1>5 DEF s

\* Where the messages end.
LEMMA EndIs ==
    End = [m \in 0 .. Len(Sizes) |-> IF m = 0 THEN 0 ELSE End[m - 1] + Header + Sizes[m]]
  <1>. DEFINE Is(f, n) == f = [m \in 0 .. n |-> IF m = 0 THEN 0 ELSE f[m - 1] + Header + Sizes[m]]
              S == {n \in Nat : \E f : Is(f, n)}
  <1>1. 0 \in S
    <2>. DEFINE g == [m \in 0 .. 0 |-> 0]
    <2>1. Is(g, 0)
      OBVIOUS
    <2>2. QED BY <2>1
  <1>2. ASSUME NEW n \in Nat, n \in S PROVE n + 1 \in S
    <2>1. PICK f : Is(f, n)
      BY <1>2
    <2>. DEFINE g == [m \in 0 .. n + 1 |-> IF m = n + 1 THEN f[n] + Header + Sizes[n + 1] ELSE f[m]]
    <2>2. \A m \in 0 .. n + 1 : g[m] = IF m = 0 THEN 0 ELSE g[m - 1] + Header + Sizes[m]
      <3>. TAKE m \in 0 .. n + 1
      <3>1. CASE m = n + 1
        BY <3>1
      <3>2. CASE m \in 0 .. n /\ m # 0
        BY <2>1, <3>2
      <3>3. CASE m = 0
        BY <2>1, <3>3
      <3>4. QED BY <3>1, <3>2, <3>3
    <2>3. Is(g, n + 1)
      BY <2>2
    <2>. HIDE DEF g
    <2>4. QED BY <2>3
  <1>3. Len(Sizes) \in S
    <2>. HIDE DEF S
    <2>. QED BY <1>1, <1>2, InductiveSet, Constants
  <1>4. \E f : Is(f, Len(Sizes))
    BY <1>3
  <1>5. End = CHOOSE f : Is(f, Len(Sizes))
    BY DEF End
  <1>6. Is(End, Len(Sizes))
    <2>. HIDE DEF Is
    <2>. QED BY <1>4, <1>5, Zenon
  <1>7. QED BY <1>6

LEMMA Ends ==
    /\ \A m \in 0 .. Len(Sizes) : End[m] \in Nat
    /\ End[0] = 0
    /\ \A m \in 1 .. Len(Sizes) : End[m] = End[m - 1] + Header + Sizes[m]
  <1>1. End[0] = 0
    BY EndIs, Constants
  <1>2. \A m \in 1 .. Len(Sizes) : End[m] = End[m - 1] + Header + Sizes[m]
    BY EndIs, Constants
  <1>. DEFINE S == {n \in Nat : n <= Len(Sizes) => End[n] \in Nat}
  <1>3. 0 \in S
    BY <1>1
  <1>4. ASSUME NEW n \in Nat, n \in S PROVE n + 1 \in S
    <2>. SUFFICES ASSUME n + 1 <= Len(Sizes) PROVE End[n + 1] \in Nat
      OBVIOUS
    <2>1. n + 1 \in 1 .. Len(Sizes) /\ (n + 1) - 1 = n /\ End[n] \in Nat
      BY <1>4, Constants
    <2>2. End[n + 1] = End[n] + Header + Sizes[n + 1]
      BY <1>2, <2>1
    <2>3. QED BY <2>1, <2>2, Constants
  <1>5. \A n \in Nat : n \in S
    <2>. HIDE DEF S
    <2>. QED BY <1>3, <1>4, InductiveSet
  <1>6. \A m \in 0 .. Len(Sizes) : End[m] \in Nat
    BY <1>5, Constants
  <1>7. QED BY <1>1, <1>2, <1>6

LEMMA EndsIncrease ==
    ASSUME NEW a \in 0 .. Len(Sizes), NEW b \in 0 .. Len(Sizes), a < b
    PROVE  End[a] <= End[b - 1] /\ End[a] < End[b]
  <1>. DEFINE S == {d \in Nat : a + d <= Len(Sizes) => End[a] <= End[a + d]}
  <1>1. 0 \in S
    BY Ends
  <1>2. ASSUME NEW d \in Nat, d \in S PROVE d + 1 \in S
    <2>. SUFFICES ASSUME a + (d + 1) <= Len(Sizes) PROVE End[a] <= End[a + (d + 1)]
      OBVIOUS
    <2>1. a + (d + 1) \in 1 .. Len(Sizes) /\ (a + (d + 1)) - 1 = a + d /\ a + d \in 0 .. Len(Sizes)
      BY Constants
    <2>2. End[a + (d + 1)] = End[a + d] + Header + Sizes[a + (d + 1)]
      BY <2>1, Ends
    <2>3. End[a] <= End[a + d] /\ End[a + d] \in Nat /\ End[a] \in Nat
      BY <1>2, <2>1, Ends, Constants
    <2>4. QED BY <2>1, <2>2, <2>3, Constants
  <1>3. \A d \in Nat : d \in S
    <2>. HIDE DEF S
    <2>. QED BY <1>1, <1>2, InductiveSet
  <1>4. (b - 1) - a \in Nat /\ a + ((b - 1) - a) = b - 1 /\ b - 1 \in 0 .. Len(Sizes) /\ b \in 1 .. Len(Sizes)
    BY Constants
  <1>5. End[a] <= End[b - 1]
    <2>1. \A d \in Nat : a + d <= Len(Sizes) => End[a] <= End[a + d]
      BY <1>3
    <2>. DEFINE e == (b - 1) - a
    <2>2. e \in Nat /\ a + e = b - 1 /\ a + e <= Len(Sizes)
      BY <1>4, Constants
    <2>. HIDE DEF e
    <2>3. QED BY <2>1, <2>2
  <1>6. End[b] = End[b - 1] + Header + Sizes[b] /\ End[a] \in Nat /\ End[b - 1] \in Nat
    BY <1>4, Ends
  <1>7. QED BY <1>4, <1>5, <1>6, Constants

LEMMA EndsOrdered ==
    ASSUME NEW a \in 0 .. Len(Sizes), NEW b \in 0 .. Len(Sizes)
    PROVE  /\ a < b <=> End[a] < End[b]
           /\ a <= b <=> End[a] <= End[b]
  <1>1. a \in Nat /\ b \in Nat /\ End[a] \in Nat /\ End[b] \in Nat
    BY Ends, Constants
  <1>2. a < b => End[a] < End[b]
    BY EndsIncrease
  <1>3. b < a => End[b] < End[a]
    BY EndsIncrease
  <1>4. a = b => End[a] = End[b]
    OBVIOUS
  <1>5. QED BY <1>1, <1>2, <1>3, <1>4

LEMMA TotalIs == /\ Total \in Nat /\ Total > 0
                 /\ \A m \in 0 .. Len(Sizes) : End[m] <= Total
  <1>1. Total = End[Len(Sizes)] /\ Len(Sizes) \in 0 .. Len(Sizes) /\ 0 \in 0 .. Len(Sizes)
    BY Constants DEF Total
  <1>2. Total \in Nat /\ End[0] = 0 /\ End[0] < Total
    BY <1>1, Ends, EndsIncrease, Constants
  <1>3. \A m \in 0 .. Len(Sizes) : End[m] <= Total
    <2>. TAKE m \in 0 .. Len(Sizes)
    <2>1. CASE m = Len(Sizes)
      BY <1>1, <1>2, <2>1
    <2>2. CASE m < Len(Sizes)
      BY <1>1, <1>2, <2>2, Ends, EndsIncrease
    <2>3. QED BY <2>1, <2>2, Constants
  <1>4. QED BY <1>2, <1>3

-----------------------------------------------------------------------------
(* The parts of a message, sorted and joined.                              *)

\* The parts p are from the packets I, all up to h, and compare as these come; so
\* do they with what packet h gives.
GivenBy(I, p, h) ==
    /\ I \subseteq 1 .. h
    /\ DOMAIN p = {Seq16(i) : i \in I}
    /\ \A i \in I, j \in I \cup {h} : i < j => PartBefore(Seq16(i), Seq16(j))

\* The parts p hold n bytes from behind byte "from" on, cut where off says: each
\* packet up to h has given one of them, those in I, or none.
Cut(off, I, p, h, from, n) ==
    /\ off \in [0 .. h -> Nat] /\ off[0] = from /\ off[h] = from + n
    /\ \A i \in 1 .. h : IF i \in I
                         THEN off[i - 1] <= off[i] /\ p[Seq16(i)] = Bytes(off[i - 1] + 1, off[i])
                         ELSE off[i] = off[i - 1]

Pieces(p, h, from, n) == \E I : GivenBy(I, p, h) /\ \E off : Cut(off, I, p, h, from, n)

LEMMA NumbersOfGivers ==
    ASSUME NEW p, NEW h \in Nat, NEW I, GivenBy(I, p, h), NEW i \in I, NEW j \in I
    PROVE  /\ i \in 1 .. h /\ Seq16(i) \in SeqNo /\ Seq16(i) \in DOMAIN p
           /\ Seq16(i) = Seq16(j) => i = j
           /\ PartBefore(Seq16(i), Seq16(j)) => i < j
  <1>1. /\ i \in 1 .. h /\ j \in 1 .. h /\ DOMAIN p = {Seq16(x) : x \in I}
        /\ i < j => PartBefore(Seq16(i), Seq16(j))
        /\ j < i => PartBefore(Seq16(j), Seq16(i))
    BY DEF GivenBy
  <1>2. Seq16(i) \in SeqNo /\ Seq16(j) \in SeqNo
    <2>1. i \in Nat \ {0} /\ j \in Nat \ {0}
      BY <1>1
    <2>2. QED BY <2>1, NextNumber
  <1>3. i < j => Seq16(i) # Seq16(j)
    BY <1>1, <1>2, PartBeforeIsStrict
  <1>4. j < i => Seq16(i) # Seq16(j) /\ ~PartBefore(Seq16(i), Seq16(j))
    BY <1>1, <1>2, PartBeforeIsStrict
  <1>5. i = j => ~PartBefore(Seq16(i), Seq16(j))
    BY <1>2, PartBeforeIsStrict
  <1>6. QED BY <1>1, <1>2, <1>3, <1>4, <1>5

\* A part of packet h joins them, or takes the place of one it has given before.
LEMMA GiverAdded ==
    ASSUME NEW p, NEW h \in Nat \ {0}, NEW I, GivenBy(I, p, h), NEW s
    PROVE  /\ GivenBy(I \cup {h}, Put(p, Seq16(h), s), h)
           /\ Seq16(h) \in DOMAIN p => h \in I
  <1>. DEFINE q == Put(p, Seq16(h), s)
  <1>1. /\ I \subseteq 1 .. h /\ DOMAIN p = {Seq16(i) : i \in I}
        /\ \A i \in I, j \in I \cup {h} : i < j => PartBefore(Seq16(i), Seq16(j))
    BY DEF GivenBy
  <1>2. DOMAIN q = DOMAIN p \cup {Seq16(h)}
    BY DEF Put
  <1>3. \A i \in I \cup {h}, j \in (I \cup {h}) \cup {h} : i < j => PartBefore(Seq16(i), Seq16(j))
    <2>. SUFFICES ASSUME NEW i \in I \cup {h}, NEW j \in I \cup {h}, i < j
                  PROVE  PartBefore(Seq16(i), Seq16(j))
      OBVIOUS
    <2>1. i \in I
      BY <1>1
    <2>2. QED BY <1>1, <2>1
  <1>4. Seq16(h) \in DOMAIN p => h \in I
    <2>. SUFFICES ASSUME NEW i \in I, Seq16(h) = Seq16(i), h \notin I PROVE FALSE
      BY <1>1
    <2>1. i < h /\ i \in Nat \ {0}
      BY <1>1
    <2>2. PartBefore(Seq16(i), Seq16(h))
      BY <1>1, <2>1
    <2>3. Seq16(i) \in SeqNo /\ Seq16(h) \in SeqNo
      BY <2>1, NextNumber
    <2>4. QED BY <2>2, <2>3, PartBeforeIsStrict
  <1>. HIDE DEF q
  <1>5. GivenBy(I \cup {h}, q, h)
    <2>1. I \cup {h} \subseteq 1 .. h
      BY <1>1
    <2>2. DOMAIN q = {Seq16(i) : i \in I \cup {h}}
      BY <1>1, <1>2
    <2>3. QED BY <1>3, <2>1, <2>2 DEF GivenBy
  <1>6. QED BY <1>4, <1>5 DEF q

\* A later packet, which all there is compares with as before it.
LEMMA GiversOfLater ==
    ASSUME NEW p, NEW h \in Nat, NEW k \in Nat, h <= k, NEW I, GivenBy(I, p, h),
           \A x \in DOMAIN p : PartBefore(x, Seq16(k))
    PROVE  GivenBy(I, p, k)
  <1>1. /\ I \subseteq 1 .. h /\ DOMAIN p = {Seq16(i) : i \in I}
        /\ \A i \in I, j \in I \cup {h} : i < j => PartBefore(Seq16(i), Seq16(j))
    BY DEF GivenBy
  <1>2. I \subseteq 1 .. k
    BY <1>1
  <1>3. \A i \in I, j \in I \cup {k} : i < j => PartBefore(Seq16(i), Seq16(j))
    BY <1>1
  <1>4. QED BY <1>1, <1>2, <1>3 DEF GivenBy

\* Where no packet gives anything nothing is added.
LEMMA NothingAdded ==
    ASSUME NEW h \in Nat, NEW off \in [0 .. h -> Nat], NEW a \in 0 .. h, NEW b \in 0 .. h, a <= b,
           \A i \in a + 1 .. b : off[i] = off[i - 1]
    PROVE  off[b] = off[a]
  <1>. DEFINE S == {d \in Nat : a + d <= b => off[a + d] = off[a]}
  <1>1. 0 \in S
    OBVIOUS
  <1>2. ASSUME NEW d \in Nat, d \in S PROVE d + 1 \in S
    <2>. SUFFICES ASSUME a + (d + 1) <= b PROVE off[a + (d + 1)] = off[a]
      OBVIOUS
    <2>1. a + (d + 1) \in a + 1 .. b /\ (a + (d + 1)) - 1 = a + d /\ a + d <= b
      OBVIOUS
    <2>2. off[a + d] = off[a]
      BY <1>2, <2>1
    <2>3. QED BY <2>1, <2>2
  <1>3. \A d \in Nat : a + d <= b => off[a + d] = off[a]
    <2>1. \A d \in Nat : d \in S
      <3>. HIDE DEF S
      <3>. QED BY <1>1, <1>2, InductiveSet
    <2>2. QED BY <2>1
  <1>. DEFINE e == b - a
  <1>4. e \in Nat /\ a + e = b
    OBVIOUS
  <1>. HIDE DEF e
  <1>5. off[a + e] = off[a]
    BY <1>3, <1>4
  <1>6. QED BY <1>4, <1>5

\* Any set of packets can be put in order.
LEMMA Enumeration ==
    \A h \in Nat : \A I \in SUBSET (1 .. h) :
        /\ IsFiniteSet(I) /\ Cardinality(I) \in Nat
        /\ \E s \in [1 .. Cardinality(I) -> I] :
              \A i, j \in 1 .. Cardinality(I) : i < j => s[i] < s[j]
  <1>. DEFINE In(I, s) == /\ s \in [1 .. Cardinality(I) -> I]
                          /\ \A i, j \in 1 .. Cardinality(I) : i < j => s[i] < s[j]
              Has(I) == IsFiniteSet(I) /\ Cardinality(I) \in Nat /\ \E s : In(I, s)
              S == {h \in Nat : \A I \in SUBSET (1 .. h) : Has(I)}
  <1>1. 0 \in S
    <2>. SUFFICES ASSUME NEW I \in SUBSET (1 .. 0) PROVE Has(I)
      OBVIOUS
    <2>1. IsFiniteSet(I) /\ Cardinality(I) = 0
      <3>1. I = {}
        OBVIOUS
      <3>2. QED BY <3>1, FS_EmptySet
    <2>. DEFINE t == [i \in 1 .. 0 |-> i]
    <2>2. In(I, t)
      BY <2>1
    <2>. HIDE DEF In, t
    <2>3. QED BY <2>1, <2>2
  <1>2. ASSUME NEW h \in Nat, h \in S PROVE h + 1 \in S
    <2>. SUFFICES ASSUME NEW I \in SUBSET (1 .. h + 1) PROVE Has(I)
      OBVIOUS
    <2>1. CASE h + 1 \notin I
      <3>1. I \in SUBSET (1 .. h)
        BY <2>1
      <3>2. QED BY <1>2, <3>1
    <2>2. CASE h + 1 \in I
      <3>. DEFINE J == I \ {h + 1}
      <3>1. J \in SUBSET (1 .. h) /\ I = J \cup {h + 1} /\ h + 1 \notin J
        BY <2>2
      <3>2. Has(J)
        BY <1>2, <3>1
      <3>3. PICK s : In(J, s)
        BY <3>2
      <3>4. IsFiniteSet(I) /\ Cardinality(I) = Cardinality(J) + 1
        <4>1. IsFiniteSet(J)
          BY <3>2
        <4>. HIDE DEF J
        <4>2. QED BY <3>1, <4>1, FS_AddElement
      <3>. DEFINE c == Cardinality(J)
                  t == [i \in 1 .. c + 1 |-> IF i = c + 1 THEN h + 1 ELSE s[i]]
      <3>5. c \in Nat /\ s \in [1 .. c -> J] /\ \A i, j \in 1 .. c : i < j => s[i] < s[j]
        BY <3>2, <3>3
      <3>6. Cardinality(I) = c + 1
        BY <3>4
      <3>. HIDE DEF c
      <3>7. t \in [1 .. c + 1 -> I]
        BY <3>1, <3>5
      <3>8. ASSUME NEW i \in 1 .. c + 1, NEW j \in 1 .. c + 1, i < j
            PROVE  t[i] < t[j]
        <4>1. i \in 1 .. c /\ t[i] = s[i] /\ s[i] \in 1 .. h
          <5>1. i \in 1 .. c
            BY <3>5, <3>8
          <5>2. t[i] = s[i]
            BY <3>5, <5>1
          <5>3. s[i] \in 1 .. h
            BY <3>1, <3>5, <5>1
          <5>4. QED BY <5>1, <5>2, <5>3
        <4>2. CASE j = c + 1
          BY <4>1, <4>2
        <4>3. CASE j \in 1 .. c
          BY <3>5, <3>8, <4>1, <4>3
        <4>4. QED BY <4>2, <4>3, <3>5
      <3>. HIDE DEF t
      <3>9. In(I, t)
        BY <3>6, <3>7, <3>8
      <3>. HIDE DEF In
      <3>10. QED BY <3>4, <3>5, <3>6, <3>9
    <2>3. QED BY <2>1, <2>2
  <1>3. \A h \in Nat : h \in S
    <2>. HIDE DEF S
    <2>. QED BY <1>1, <1>2, InductiveSet
  <1>4. QED BY <1>3

\* The keys are those of the packets I, in the order in which these were sent.
InOrder(keys, I) ==
    \E c \in Nat : \E pos \in [1 .. c -> I] :
       /\ keys = [k \in 1 .. c |-> Seq16(pos[k])]
       /\ \A k, l \in 1 .. c : k < l => pos[k] < pos[l]
       /\ \A i \in I : \E k \in 1 .. c : i = pos[k]

\* Sorting finds the order of the packets: what it gives are the numbers of all
\* packets with a part, one after the other.
LEMMA SortedKeys ==
    ASSUME NEW p, NEW h \in Nat, NEW I, GivenBy(I, p, h)
    PROVE  InOrder(Sorted(DOMAIN p), I)
  <1>. DEFINE K == DOMAIN p
              Ordered(s, c) == s \in [1 .. c -> K] /\ \A i, j \in 1 .. c : i < j => PartBefore(s[i], s[j])
  <1>0. /\ I \subseteq 1 .. h /\ K = {Seq16(i) : i \in I}
        /\ \A i, j \in I : i < j => PartBefore(Seq16(i), Seq16(j))
        /\ \A i, j \in I : PartBefore(Seq16(i), Seq16(j)) => i < j
        /\ \A i, j \in I : Seq16(i) = Seq16(j) => i = j
    <2>1. \A i, j \in I : PartBefore(Seq16(i), Seq16(j)) => i < j
      BY NumbersOfGivers
    <2>2. \A i, j \in I : Seq16(i) = Seq16(j) => i = j
      BY NumbersOfGivers
    <2>3. QED BY <2>1, <2>2 DEF GivenBy
  <1>1. PICK s \in [1 .. Cardinality(I) -> I] : \A i, j \in 1 .. Cardinality(I) : i < j => s[i] < s[j]
    BY <1>0, Enumeration
  <1>2. IsFiniteSet(I) /\ Cardinality(I) \in Nat
    BY <1>0, Enumeration
  <1>3. IsFiniteSet(K) /\ Cardinality(K) = Cardinality(I)
    <2>. DEFINE f == [i \in I |-> Seq16(i)]
    <2>1. f \in Bijection(I, K)
      <3>1. \A i, j \in I : f[i] = f[j] => i = j
        BY <1>0
      <3>2. \A k \in K : \E i \in I : f[i] = k
        BY <1>0
      <3>3. f \in [I -> K]
        BY <1>0
      <3>. HIDE DEF f, K
      <3>4. f \in Injection(I, K) /\ f \in Surjection(I, K)
        BY <3>1, <3>2, <3>3 DEF Injection, Surjection, IsInjective
      <3>5. QED BY <3>4 DEF Bijection
    <2>. HIDE DEF f, K
    <2>2. ExistsBijection(I, K)
      BY <2>1 DEF ExistsBijection
    <2>3. QED BY <1>2, <2>2, FS_Bijection
  <1>. DEFINE c == Cardinality(K)
              keys == Sorted(K)
              given == [k \in 1 .. c |-> Seq16(s[k])]
  <1>4. Ordered(given, c)
    <2>1. given \in [1 .. c -> K]
      BY <1>0, <1>1, <1>3
    <2>2. ASSUME NEW i \in 1 .. c, NEW j \in 1 .. c, i < j
          PROVE  PartBefore(given[i], given[j])
      <3>1. s[i] < s[j] /\ s[i] \in I /\ s[j] \in I
        BY <1>1, <1>3, <2>2
      <3>2. PartBefore(Seq16(s[i]), Seq16(s[j]))
        BY <1>0, <3>1
      <3>3. QED BY <3>2
    <2>3. QED BY <2>1, <2>2
  <1>5. Ordered(keys, c)
    <2>1. keys = CHOOSE t \in [1 .. c -> K] : \A i, j \in DOMAIN t : i < j => PartBefore(t[i], t[j])
      BY DEF Sorted
    <2>2. keys = CHOOSE t \in [1 .. c -> K] : Ordered(t, c)
      <3>1. \A t \in [1 .. c -> K] :
              Ordered(t, c) <=> \A i, j \in DOMAIN t : i < j => PartBefore(t[i], t[j])
        OBVIOUS
      <3>. HIDE DEF keys, c, K, Ordered
      <3>2. QED BY <2>1, <3>1
    <2>. HIDE DEF keys, c, K, given
    <2>3. QED BY <1>4, <2>2
  <1>6. c \in Nat
    BY <1>2, <1>3
  <1>. HIDE DEF c, keys, given
  <1>. DEFINE pos == [k \in 1 .. c |-> CHOOSE i \in I : keys[k] = Seq16(i)]
  <1>7. \A k \in 1 .. c : pos[k] \in I /\ keys[k] = Seq16(pos[k])
    <2>. TAKE k \in 1 .. c
    <2>1. \E i \in I : keys[k] = Seq16(i)
      BY <1>0, <1>5
    <2>2. QED BY <2>1
  <1>. HIDE DEF pos
  <1>8. pos \in [1 .. c -> I]
    BY <1>7 DEF pos
  <1>9. keys = [k \in 1 .. c |-> Seq16(pos[k])]
    BY <1>5, <1>7
  <1>10. \A k, l \in 1 .. c : k < l => pos[k] < pos[l]
    <2>. SUFFICES ASSUME NEW k \in 1 .. c, NEW l \in 1 .. c, k < l PROVE pos[k] < pos[l]
      OBVIOUS
    <2>1. PartBefore(Seq16(pos[k]), Seq16(pos[l]))
      BY <1>5, <1>7
    <2>2. pos[k] \in I /\ pos[l] \in I
      BY <1>7
    <2>3. QED BY <1>0, <2>1, <2>2
  <1>11. \A i \in I : \E k \in 1 .. c : i = pos[k]
    <2>. SUFFICES ASSUME NEW i \in I PROVE \E k \in 1 .. c : i = pos[k]
      OBVIOUS
    <2>1. keys \in Injection(1 .. c, K)
      <3>1. \A k, l \in 1 .. c : keys[k] = keys[l] => k = l
        <4>. SUFFICES ASSUME NEW k \in 1 .. c, NEW l \in 1 .. c, keys[k] = keys[l], k # l PROVE FALSE
          OBVIOUS
        <4>0. k # l
          OBVIOUS
        <4>1. pos[k] = pos[l]
          BY <1>0, <1>7
        <4>2. pos[k] \in 1 .. h /\ (k < l \/ l < k)
          <5>1. pos[k] \in I
            BY <1>7
          <5>2. pos[k] \in 1 .. h
            <6>1. I \subseteq 1 .. h
              BY <1>0
            <6>2. QED BY <5>1, <6>1
          <5>3. k < l \/ l < k
            <6>1. k \in Int /\ l \in Int
              BY <1>6
            <6>2. QED BY <4>0, <6>1
          <5>4. QED BY <5>2, <5>3
        <4>3. QED BY <1>10, <4>1, <4>2
      <3>2. keys \in [1 .. c -> K]
        BY <1>5
      <3>3. QED BY <3>1, <3>2 DEF Injection, IsInjective
    <2>2. keys \in Surjection(1 .. c, K)
      <3>1. Cardinality(1 .. c) = c
        BY <1>6, FS_Interval
      <3>2. c = Cardinality(K)
        BY DEF c
      <3>. HIDE DEF K
      <3>3. QED BY <1>3, <2>1, <3>1, <3>2, FS_Injection
    <2>3. PICK k \in 1 .. c : keys[k] = Seq16(i)
      BY <1>0, <2>2 DEF Surjection
    <2>4. i = pos[k]
      BY <1>0, <1>7, <2>3
    <2>5. QED BY <2>4
  <1>12. InOrder(keys, I)
    BY <1>6, <1>8, <1>9, <1>10, <1>11 DEF InOrder
  <1>13. QED BY <1>12 DEF keys, K

\* FlattenSeq is what its recursion says.
LEMMA FlattenIs ==
    ASSUME NEW s, Len(s) \in Nat \ {0}
    PROVE  \E f : /\ f = [i \in 1 .. Len(s) |-> IF i = 1 THEN s[i] ELSE f[i - 1] \o s[i]]
                  /\ FlattenSeq(s) = f[Len(s)]
  <1>. DEFINE Is(f, n) == f = [i \in 1 .. n |-> IF i = 1 THEN s[i] ELSE f[i - 1] \o s[i]]
              S == {n \in Nat : \E f : Is(f, n)}
              flatten == CHOOSE f : Is(f, Len(s))
  <1>1. 0 \in S
    <2>. DEFINE g == [i \in 1 .. 0 |-> s[i]]
    <2>1. Is(g, 0)
      OBVIOUS
    <2>. HIDE DEF g
    <2>2. QED BY <2>1
  <1>2. ASSUME NEW n \in Nat, n \in S PROVE n + 1 \in S
    <2>1. PICK f : Is(f, n)
      BY <1>2
    <2>. DEFINE g == [i \in 1 .. n + 1 |->
                        IF i # n + 1 THEN f[i] ELSE IF i = 1 THEN s[i] ELSE f[n] \o s[i]]
    <2>2. \A i \in 1 .. n + 1 : g[i] = IF i = 1 THEN s[i] ELSE g[i - 1] \o s[i]
      <3>. TAKE i \in 1 .. n + 1
      <3>1. CASE i = n + 1
        <4>1. i # 1 => g[i - 1] = f[n]
          BY <3>1
        <4>2. QED BY <3>1, <4>1
      <3>2. CASE i \in 1 .. n /\ i # 1
        <4>1. g[i] = f[i] /\ g[i - 1] = f[i - 1]
          BY <3>2
        <4>2. QED BY <2>1, <3>2, <4>1
      <3>3. CASE i = 1 /\ i # n + 1
        BY <2>1, <3>3
      <3>4. QED BY <3>1, <3>2, <3>3
    <2>3. Is(g, n + 1)
      BY <2>2
    <2>. HIDE DEF g, Is
    <2>4. QED BY <2>3
  <1>3. Len(s) \in S
    <2>. HIDE DEF S
    <2>. QED BY <1>1, <1>2, InductiveSet
  <1>4. \E f : Is(f, Len(s))
    BY <1>3
  <1>5. Is(flatten, Len(s))
    <2>. HIDE DEF Is
    <2>. QED BY <1>4, Zenon
  <1>6. FlattenSeq(s) = flatten[Len(s)]
    BY DEF FlattenSeq
  <1>. HIDE DEF flatten
  <1>7. QED BY <1>5, <1>6

\* What sortMessageParts gives of the parts of a message: its bytes.
LEMMA JoinedParts ==
    ASSUME NEW p, NEW h \in Nat, NEW from \in Nat, NEW n \in Nat, Pieces(p, h, from, n)
    PROVE  SortMessageParts(p) = Bytes(from + 1, from + n)
  <1>1. PICK I, off : GivenBy(I, p, h) /\ Cut(off, I, p, h, from, n)
    BY DEF Pieces
  <1>2. /\ off \in [0 .. h -> Nat] /\ off[0] = from /\ off[h] = from + n
        /\ \A i \in 1 .. h : IF i \in I
                             THEN /\ off[i - 1] <= off[i]
                                  /\ p[Seq16(i)] = Bytes(off[i - 1] + 1, off[i])
                             ELSE off[i] = off[i - 1]
    BY <1>1 DEF Cut
  <1>3. h \in Nat /\ I \subseteq 1 .. h
    BY <1>1 DEF GivenBy
  <1>4. PICK c \in Nat : \E pos \in [1 .. c -> I] :
              /\ Sorted(DOMAIN p) = [k \in 1 .. c |-> Seq16(pos[k])]
              /\ \A k, l \in 1 .. c : k < l => pos[k] < pos[l]
              /\ \A i \in I : \E k \in 1 .. c : i = pos[k]
    <2>1. InOrder(Sorted(DOMAIN p), I)
      BY <1>1, <1>3, SortedKeys
    <2>2. QED BY <2>1 DEF InOrder
  <1>5. PICK pos \in [1 .. c -> I] :
              /\ Sorted(DOMAIN p) = [k \in 1 .. c |-> Seq16(pos[k])]
              /\ \A k, l \in 1 .. c : k < l => pos[k] < pos[l]
              /\ \A i \in I : \E k \in 1 .. c : i = pos[k]
    BY <1>4
  <1>. DEFINE seqs == [k \in 1 .. c |-> p[Seq16(pos[k])]]
  <1>6. SortMessageParts(p) = FlattenSeq(seqs)
    <2>1. [k \in DOMAIN Sorted(DOMAIN p) |-> p[Sorted(DOMAIN p)[k]]] = seqs
      BY <1>5
    <2>2. QED BY <2>1 DEF SortMessageParts, Join
  <1>7. Len(seqs) = c
    OBVIOUS
  <1>8. \A k \in 1 .. c : /\ pos[k] \in 1 .. h /\ pos[k] - 1 \in 0 .. h
                          /\ off[pos[k] - 1] \in Nat /\ off[pos[k]] \in Nat
                          /\ off[pos[k] - 1] <= off[pos[k]]
                          /\ seqs[k] = Bytes(off[pos[k] - 1] + 1, off[pos[k]])
    <2>. TAKE k \in 1 .. c
    <2>1. pos[k] \in I /\ pos[k] \in 1 .. h /\ pos[k] - 1 \in 0 .. h /\ pos[k] \in 0 .. h
      <3>1. pos[k] \in I
        OBVIOUS
      <3>2. pos[k] \in 1 .. h
        BY <1>3, <3>1
      <3>3. QED BY <1>3, <3>1, <3>2
    <2>2. QED BY <1>2, <1>5, <2>1
  <1>. HIDE DEF seqs
  <1>9. CASE c = 0
    <2>1. \A i \in 1 .. h : off[i] = off[i - 1]
      BY <1>2, <1>5, <1>9
    <2>2. off[h] = off[0]
      <3>1. 0 \in 0 .. h /\ h \in 0 .. h /\ 0 <= h /\ \A i \in 0 + 1 .. h : i \in 1 .. h
        BY <1>3
      <3>2. off \in [0 .. h -> Nat]
        BY <1>2
      <3>3. \A i \in 0 + 1 .. h : off[i] = off[i - 1]
        BY <2>1, <3>1
      <3>4. QED BY <1>3, <3>1, <3>2, <3>3, NothingAdded
    <2>3. n = 0
      BY <1>2, <2>2
    <2>4. FlattenSeq(seqs) = seqs
      BY <1>7, <1>9 DEF FlattenSeq
    <2>5. seqs = <<>>
      BY <1>9 DEF seqs
    <2>6. Bytes(from + 1, from + n) = <<>>
      BY <2>3 DEF Bytes
    <2>7. QED BY <1>6, <2>4, <2>5, <2>6
  <1>10. CASE c # 0
    <2>1. PICK f : /\ f = [i \in 1 .. c |-> IF i = 1 THEN seqs[i] ELSE f[i - 1] \o seqs[i]]
                   /\ FlattenSeq(seqs) = f[c]
      BY <1>7, <1>10, FlattenIs
    <2>2. \A i \in 1 .. c : f[i] = IF i = 1 THEN seqs[i] ELSE f[i - 1] \o seqs[i]
      BY <2>1, Zenon
    <2>3. off[pos[1] - 1] = from
      <3>1. 1 \in 1 .. c
        BY <1>10
      <3>2. \A i \in 0 + 1 .. pos[1] - 1 : off[i] = off[i - 1]
        <4>. TAKE i \in 0 + 1 .. pos[1] - 1
        <4>1. i \in 1 .. h /\ i < pos[1]
          BY <1>3, <1>8, <3>1
        <4>2. i \notin I
          <5>. SUFFICES ASSUME NEW k \in 1 .. c, i = pos[k] PROVE FALSE
            BY <1>5, <4>1
          <5>1. k # 1
            BY <4>1
          <5>2. pos[1] < pos[k]
            BY <1>5, <3>1, <5>1
          <5>3. QED BY <1>8, <3>1, <4>1, <5>2
        <4>3. QED BY <1>2, <4>1, <4>2
      <3>3. 0 \in 0 .. h /\ pos[1] - 1 \in 0 .. h /\ 0 <= pos[1] - 1
        BY <1>3, <1>8, <3>1
      <3>4. off[pos[1] - 1] = off[0]
        <4>1. off \in [0 .. h -> Nat]
          BY <1>2
        <4>2. QED BY <1>3, <3>2, <3>3, <4>1, NothingAdded
      <3>5. QED BY <1>2, <3>4
    <2>4. ASSUME NEW k \in 1 .. c, k + 1 \in 1 .. c
          PROVE  off[pos[k + 1] - 1] = off[pos[k]]
      <3>. DEFINE a == pos[k]
                  b == pos[k + 1] - 1
      <3>1. a \in 0 .. h /\ b \in 0 .. h /\ a <= b /\ a \in 1 .. h
        <4>1. pos[k] < pos[k + 1]
          BY <1>5, <2>4
        <4>2. pos[k] \in 1 .. h /\ pos[k + 1] \in 1 .. h
          BY <1>8, <2>4
        <4>3. QED BY <1>3, <4>1, <4>2
      <3>2. \A i \in a + 1 .. b : off[i] = off[i - 1]
        <4>. TAKE i \in a + 1 .. b
        <4>1. i \in 1 .. h /\ pos[k] < i /\ i < pos[k + 1]
          <5>1. pos[k] \in 1 .. h /\ pos[k + 1] \in 1 .. h
            BY <1>8, <2>4
          <5>2. QED BY <1>3, <5>1
        <4>2. i \notin I
          <5>. SUFFICES ASSUME NEW l \in 1 .. c, i = pos[l] PROVE FALSE
            BY <1>5, <4>1
          <5>1. l < k \/ l = k \/ l = k + 1 \/ l > k + 1
            OBVIOUS
          <5>2. ~(l < k)
            BY <1>5, <1>8, <4>1
          <5>3. ~(l > k + 1)
            <6>. SUFFICES ASSUME l > k + 1 PROVE FALSE
              OBVIOUS
            <6>1. pos[k + 1] < pos[l]
              BY <1>5, <2>4
            <6>2. pos[k + 1] \in Int /\ pos[l] \in Int
              BY <1>8, <2>4
            <6>3. QED BY <4>1, <6>1, <6>2
          <5>4. pos[l] # pos[k] /\ pos[l] # pos[k + 1]
            <6>1. pos[k] < pos[l] /\ pos[l] < pos[k + 1]
              BY <4>1
            <6>2. pos[k] \in Int /\ pos[l] \in Int /\ pos[k + 1] \in Int
              BY <1>8, <2>4
            <6>3. QED BY <6>1, <6>2
          <5>5. QED BY <5>1, <5>2, <5>3, <5>4
        <4>3. QED BY <1>2, <4>1, <4>2
      <3>. HIDE DEF a, b
      <3>3. off[b] = off[a]
        <4>1. off \in [0 .. h -> Nat]
          BY <1>2
        <4>2. QED BY <3>1, <3>2, <4>1, NothingAdded
      <3>4. QED BY <3>3 DEF a, b
    <2>5. off[pos[c]] = from + n
      <3>1. c \in 1 .. c
        BY <1>10
      <3>. DEFINE a == pos[c]
      <3>2. a \in 0 .. h /\ h \in 0 .. h /\ a <= h /\ a \in 1 .. h
        BY <1>3, <1>8, <3>1
      <3>3. \A i \in a + 1 .. h : off[i] = off[i - 1]
        <4>. TAKE i \in a + 1 .. h
        <4>1. i \in 1 .. h /\ pos[c] < i
          BY <1>3, <1>8, <3>1, <3>2
        <4>2. i \notin I
          <5>. SUFFICES ASSUME NEW l \in 1 .. c, i = pos[l] PROVE FALSE
            BY <1>5, <4>1
          <5>1. l # c
            BY <3>2, <4>1
          <5>2. l < c
            BY <5>1
          <5>3. pos[l] < pos[c]
            BY <1>5, <3>1, <5>2
          <5>4. QED BY <1>8, <3>1, <4>1, <5>3
        <4>3. QED BY <1>2, <4>1, <4>2
      <3>. HIDE DEF a
      <3>4. off[h] = off[a]
        <4>1. off \in [0 .. h -> Nat]
          BY <1>2
        <4>2. QED BY <3>2, <3>3, <4>1, NothingAdded
      <3>5. QED BY <1>2, <3>4 DEF a
    <2>. DEFINE G(k) == from <= off[pos[k]] /\ f[k] = Bytes(from + 1, off[pos[k]])
                S == {d \in Nat : d + 1 \in 1 .. c => G(d + 1)}
    <2>6. 0 \in S
      <3>1. 1 \in 1 .. c /\ f[1] = seqs[1]
        BY <1>10, <2>2
      <3>2. G(1)
        BY <1>8, <2>3, <3>1
      <3>3. QED BY <3>2
    <2>7. ASSUME NEW d \in Nat, d \in S PROVE d + 1 \in S
      <3>. SUFFICES ASSUME (d + 1) + 1 \in 1 .. c PROVE G((d + 1) + 1)
        OBVIOUS
      <3>. DEFINE k == d + 1
      <3>1. k \in 1 .. c /\ k + 1 \in 1 .. c /\ k + 1 # 1 /\ (k + 1) - 1 = k
        OBVIOUS
      <3>2. G(k)
        BY <2>7, <3>1
      <3>. HIDE DEF k
      <3>3. off[pos[k + 1] - 1] = off[pos[k]]
        BY <2>4, <3>1
      <3>4. /\ off[pos[k]] \in Nat /\ off[pos[k + 1]] \in Nat
            /\ off[pos[k]] <= off[pos[k + 1]]
            /\ seqs[k + 1] = Bytes(off[pos[k]] + 1, off[pos[k + 1]])
        BY <1>8, <3>1, <3>3
      <3>5. f[k + 1] = f[k] \o seqs[k + 1]
        BY <2>2, <3>1
      <3>6. Bytes(from + 1, off[pos[k]]) \o Bytes(off[pos[k]] + 1, off[pos[k + 1]])
              = Bytes(from + 1, off[pos[k + 1]])
        BY <3>2, <3>4, BytesJoin
      <3>7. G(k + 1)
        <4>1. from <= off[pos[k + 1]]
          BY <3>2, <3>4
        <4>2. f[k + 1] = Bytes(from + 1, off[pos[k + 1]])
          BY <3>2, <3>4, <3>5, <3>6, Zenon
        <4>3. QED BY <4>1, <4>2
      <3>. HIDE DEF G
      <3>8. QED BY <3>7 DEF k
    <2>8. c - 1 \in S
      <3>1. c - 1 \in Nat
        BY <1>10
      <3>. HIDE DEF S
      <3>2. QED BY <2>6, <2>7, <3>1, InductiveSet
    <2>9. f[c] = Bytes(from + 1, off[pos[c]])
      <3>1. (c - 1) + 1 = c /\ c \in 1 .. c
        BY <1>10
      <3>2. QED BY <2>8, <3>1
    <2>10. QED BY <1>6, <2>1, <2>5, <2>9
  <1>11. QED BY <1>9, <1>10

\* The first bytes that packet h gives to a message.
LEMMA PieceAdded ==
    ASSUME NEW h \in Nat \ {0}, NEW p,
           NEW from \in Nat, NEW n \in Nat, NEW k \in Nat, Pieces(p, h, from, n),
           Seq16(h) \in DOMAIN p => p[Seq16(h)] = <<>>
    PROVE  Pieces(Put(p, Seq16(h), Bytes(from + n + 1, from + n + k)), h, from, n + k)
  <1>. DEFINE key == Seq16(h)
              b == Bytes(from + n + 1, from + n + k)
              q == Put(p, key, b)
  <1>1. PICK I, off : GivenBy(I, p, h) /\ Cut(off, I, p, h, from, n)
    BY DEF Pieces
  <1>2. /\ off \in [0 .. h -> Nat] /\ off[0] = from /\ off[h] = from + n
        /\ \A i \in 1 .. h : IF i \in I
                             THEN /\ off[i - 1] <= off[i]
                                  /\ p[Seq16(i)] = Bytes(off[i - 1] + 1, off[i])
                             ELSE off[i] = off[i - 1]
    BY <1>1 DEF Cut
  <1>3. off[h - 1] = from + n
    <2>1. h \in 1 .. h /\ h - 1 \in 0 .. h /\ h \in 0 .. h
      OBVIOUS
    <2>2. CASE h \in I
      <3>1. off[h - 1] \in Nat /\ off[h] \in Nat /\ off[h - 1] <= off[h]
        BY <1>2, <2>1, <2>2
      <3>2. key \in DOMAIN p
        BY <1>1, <2>2 DEF GivenBy
      <3>3. Bytes(off[h - 1] + 1, off[h]) = <<>>
        BY <1>2, <2>1, <2>2, <3>2
      <3>4. off[h] - off[h - 1] = 0
        BY <3>1, <3>3, BytesAre
      <3>5. QED BY <1>2, <3>1, <3>4
    <2>3. CASE h \notin I
      BY <1>2, <2>1, <2>3
    <2>4. QED BY <2>2, <2>3
  <1>. DEFINE new == [i \in 0 .. h |-> IF i = h THEN from + n + k ELSE off[i]]
  <1>4. /\ new \in [0 .. h -> Nat] /\ new[0] = from /\ new[h] = from + (n + k)
        /\ new[h - 1] = from + n
        /\ \A i \in 1 .. h : i # h => new[i] = off[i] /\ new[i - 1] = off[i - 1]
    BY <1>2, <1>3
  <1>5. q[key] = b /\ \A x \in DOMAIN p : x # key => q[x] = p[x]
    BY DEF Put
  <1>6. GivenBy(I \cup {h}, q, h)
    BY <1>1, GiverAdded
  <1>. HIDE DEF new, q
  <1>7. ASSUME NEW i \in 1 .. h
        PROVE  IF i \in I \cup {h}
               THEN new[i - 1] <= new[i] /\ q[Seq16(i)] = Bytes(new[i - 1] + 1, new[i])
               ELSE new[i] = new[i - 1]
    <2>1. CASE i = h
      <3>1. new[h - 1] <= new[h] /\ b = Bytes(new[h - 1] + 1, new[h])
        BY <1>4
      <3>2. QED BY <1>5, <2>1, <3>1
    <2>2. CASE i # h /\ i \in I
      <3>1. Seq16(i) # key /\ Seq16(i) \in DOMAIN p
        <4>1. i < h
          BY <2>2
        <4>2. PartBefore(Seq16(i), Seq16(h))
          BY <1>1, <2>2, <4>1 DEF GivenBy
        <4>3. Seq16(i) \in SeqNo /\ Seq16(h) \in SeqNo
          <5>1. i \in Nat \ {0}
            OBVIOUS
          <5>2. QED BY <5>1, NextNumber
        <4>4. Seq16(i) # key
          BY <4>2, <4>3, PartBeforeIsStrict
        <4>5. QED BY <1>1, <2>2, <4>4 DEF GivenBy
      <3>2. QED BY <1>2, <1>4, <1>5, <2>2, <3>1
    <2>3. CASE i # h /\ i \notin I
      BY <1>2, <1>4, <2>3
    <2>4. QED BY <2>1, <2>2, <2>3
  <1>8. Cut(new, I \cup {h}, q, h, from, n + k)
    BY <1>4, <1>7 DEF Cut
  <1>9. QED BY <1>6, <1>8 DEF Pieces, q

\* A packet that has given nothing yet.
LEMMA PiecesOfNext ==
    ASSUME NEW h \in Nat, NEW p, NEW from \in Nat, NEW n \in Nat, Pieces(p, h, from, n),
           \A x \in DOMAIN p : PartBefore(x, Seq16(h + 1))
    PROVE  Pieces(p, h + 1, from, n)
  <1>1. PICK I, off : GivenBy(I, p, h) /\ Cut(off, I, p, h, from, n)
    BY DEF Pieces
  <1>2. /\ off \in [0 .. h -> Nat] /\ off[0] = from /\ off[h] = from + n
        /\ \A i \in 1 .. h : IF i \in I
                             THEN /\ off[i - 1] <= off[i]
                                  /\ p[Seq16(i)] = Bytes(off[i - 1] + 1, off[i])
                             ELSE off[i] = off[i - 1]
    BY <1>1 DEF Cut
  <1>. DEFINE new == [i \in 0 .. h + 1 |-> IF i = h + 1 THEN off[h] ELSE off[i]]
  <1>3. /\ new \in [0 .. h + 1 -> Nat] /\ new[0] = from /\ new[h + 1] = from + n
        /\ new[h + 1] = new[(h + 1) - 1]
        /\ \A i \in 1 .. h : new[i] = off[i] /\ new[i - 1] = off[i - 1]
    BY <1>2
  <1>4. h + 1 \notin I
    BY <1>1 DEF GivenBy
  <1>5. GivenBy(I, p, h + 1)
    BY <1>1, GiversOfLater
  <1>. HIDE DEF new
  <1>6. ASSUME NEW i \in 1 .. h + 1
        PROVE  IF i \in I
               THEN new[i - 1] <= new[i] /\ p[Seq16(i)] = Bytes(new[i - 1] + 1, new[i])
               ELSE new[i] = new[i - 1]
    <2>1. CASE i = h + 1
      BY <1>3, <1>4, <2>1
    <2>2. CASE i \in 1 .. h
      BY <1>2, <1>3, <2>2
    <2>3. QED BY <2>1, <2>2
  <1>7. Cut(new, I, p, h + 1, from, n)
    BY <1>3, <1>6 DEF Cut
  <1>8. QED BY <1>5, <1>7 DEF Pieces

\* Parts without bytes are no part of anything.
LEMMA EmptyPieces ==
    ASSUME NEW h \in Nat, NEW p, NEW from \in Nat, NEW I, GivenBy(I, p, h),
           \A k \in DOMAIN p : p[k] = <<>>
    PROVE  Pieces(p, h, from, 0)
  <1>. DEFINE off == [i \in 0 .. h |-> from]
  <1>1. off \in [0 .. h -> Nat] /\ off[0] = from /\ off[h] = from + 0
    OBVIOUS
  <1>2. \A i \in 1 .. h : off[i] = from /\ off[i - 1] = from
    OBVIOUS
  <1>3. Bytes(from + 1, from) = <<>>
    BY DEF Bytes
  <1>4. \A i \in I : p[Seq16(i)] = <<>>
    BY DEF GivenBy
  <1>. HIDE DEF off
  <1>5. \A i \in 1 .. h : IF i \in I
                          THEN off[i - 1] <= off[i] /\ p[Seq16(i)] = Bytes(off[i - 1] + 1, off[i])
                          ELSE off[i] = off[i - 1]
    BY <1>2, <1>3, <1>4
  <1>6. Cut(off, I, p, h, from, 0)
    BY <1>1, <1>5 DEF Cut
  <1>7. QED BY <1>6 DEF Pieces

-----------------------------------------------------------------------------
(* The invariant.                                                          *)

\* Packets: what is expected is the number of the packet after the one processed
\* last, and a packet waits under its own number.
PacketsInv ==
    /\ ends \in Seq(1 .. Total) /\ Len(ends) \in 1 .. MaxPackets
    /\ \A i, j \in 1 .. Len(ends) : i < j => ends[i] < ends[j]
    /\ sent \in 0 .. Len(ends) /\ acked \subseteq 1 .. sent
    /\ pc \in {"wait", "parse", "next"} /\ initialized \in BOOLEAN
    /\ first \in 0 .. sent /\ high \in 0 .. sent
    /\ IF initialized
       THEN high # 0 /\ first # 0 /\ expected = Seq16(high + 1) /\ seqNo = Seq16(high)
       ELSE high = 0 /\ first = 0 /\ pc = "wait"
    /\ expected \in SeqNo /\ seqNo \in SeqNo
    /\ \A k \in DOMAIN queue : k \in SeqNo /\ queue[k] \in 1 .. sent /\ Seq16(queue[k]) = k

\* The bytes of the packets that have been processed.
Taken == IF high = 0 THEN 0 ELSE ends[high]

\* Between two packets everything is parsed that can be.
BuffersInv ==
    /\ leftover \in Seq(1 .. Total) /\ data \in Seq(1 .. Total)
    /\ leftover = <<>> \/ data = <<>>
    /\ Len(leftover) <= Header
    /\ pc # "parse" => data = <<>>
    /\ ~initialized => leftover = <<>> /\ header = 0 /\ parts = NoParts /\ out = <<>>
    /\ data # <<>> /\ Seq16(high) \in DOMAIN parts => parts[Seq16(high)] = <<>>
    /\ data = <<>> /\ BytesToRead(header) > 0 => Len(leftover) < BytesToRead(header) - bytesRead

\* The last byte of a message's header.
HeaderEnd(h) == Begin(h) + Header - 1

\* A message h of which n bytes have been read, up to byte "at" of the stream.
Reading(h, n, p, at) ==
    /\ h \in 0 .. Len(Sizes) /\ n \in Nat
    /\ \A k \in DOMAIN p : /\ k \in SeqNo /\ p[k] \in Seq(1 .. Total)
                           /\ \E i \in 1 .. high : k = Seq16(i)
    /\ IF BytesToRead(h) = 0
       THEN n = 0 /\ (\A k \in DOMAIN p : p[k] = <<>>) /\ \E I : GivenBy(I, p, high)
       ELSE n < BytesToRead(h) /\ at = HeaderEnd(h) + n /\ Pieces(p, high, HeaderEnd(h), n)

\* What was handed on lies before.
HandedOn(o, at) ==
    /\ o \in Seq([msg : Ids, data : Seq(Nat)])
    /\ \A j \in 1 .. Len(o) : /\ o[j].data = Payload(o[j].msg)
                              /\ Sizes[o[j].msg] > 0 /\ End[o[j].msg] <= at
    /\ \A j, k \in 1 .. Len(o) : k < j => o[k].msg < o[j].msg

\* A client that heard all stands at the end of a message, or in the middle of one
\* it reads, and has handed on all before.
Complete(o, h, at) ==
    /\ \A m \in Ids : Sizes[m] > 0 /\ End[m] <= at => \E j \in 1 .. Len(o) : o[j].msg = m
    /\ BytesToRead(h) = 0 => \E m \in 0 .. Len(Sizes) : at = End[m]

\* The parser has come to byte "at": the rest is in leftover or in data.
Stands(at) ==
    /\ at \in Nat /\ at <= Taken
    /\ leftover \o data = Bytes(at + 1, Taken)
    /\ Reading(header, bytesRead, parts, at)
    /\ HandedOn(out, at)
    /\ first = 1 => Complete(out, header, at)

ChannelInv == PacketsInv /\ BuffersInv /\ \E at : Stands(at)

LEMMA ChannelInit ==
    ASSUME Init
    PROVE  ChannelInv
  <1>. USE DEF Init
  <1>1. /\ ends \in Seq(1 .. Total) /\ Len(ends) \in 1 .. MaxPackets
        /\ \A i, j \in 1 .. Len(ends) : i < j => ends[i] < ends[j]
    <2>1. PICK k \in 1 .. MaxPackets : ends \in [1 .. k -> 1 .. Total]
      BY DEF Cuttings
    <2>2. \A i, j \in DOMAIN ends : i < j => ends[i] < ends[j]
      BY DEF Cuttings
    <2>3. k \in Nat /\ DOMAIN ends = 1 .. k /\ Len(ends) = k
      BY <2>1, Constants
    <2>4. ends \in Seq(1 .. Total)
      BY <2>1, <2>3, SeqDef
    <2>5. QED BY <2>2, <2>3, <2>4
  <1>2. PacketsInv
    <2>1. 0 \in SeqNo
      BY Constants DEF SeqNo
    <2>2. sent \in 0 .. Len(ends) /\ acked \subseteq 1 .. sent
      BY <1>1
    <2>3. DOMAIN queue = {}
      BY DEF NoParts
    <2>4. first \in 0 .. sent /\ high \in 0 .. sent
      OBVIOUS
    <2>5. QED BY <1>1, <2>1, <2>2, <2>3, <2>4 DEF PacketsInv
  <1>3. BuffersInv
    <2>1. Len(<<>>) = 0 /\ <<>> \in Seq(1 .. Total)
      OBVIOUS
    <2>2. BytesToRead(header) = 0
      BY DEF BytesToRead
    <2>3. QED BY <2>1, <2>2, Constants DEF BuffersInv, NoParts
  <1>4. Stands(0)
    <2>1. Taken = 0 /\ Bytes(1, 0) = <<>> /\ leftover \o data = <<>>
      BY DEF Taken, Bytes
    <2>2. Reading(header, bytesRead, parts, 0)
      <3>1. GivenBy({}, parts, high)
        BY DEF GivenBy, NoParts
      <3>2. QED BY <3>1, Constants DEF Reading, BytesToRead, NoParts
    <2>3. HandedOn(out, 0)
      BY DEF HandedOn
    <2>4. QED BY <2>1, <2>2, <2>3 DEF Stands
  <1>5. QED BY <1>2, <1>3, <1>4 DEF ChannelInv

\* What the theorems say follows.
LEMMA ChannelSays ==
    ASSUME ChannelInv
    PROVE  TypeOK /\ MessagesWhole /\ NothingLost
  <1>1. PICK at : Stands(at)
    BY DEF ChannelInv
  <1>2. PacketsInv /\ BuffersInv
    BY DEF ChannelInv
  <1>3. \A h \in 0 .. Len(Sizes) : BytesToRead(h) \in Nat
    BY Constants DEF BytesToRead
  <1>4. TypeOK
    <2>1. /\ header \in 0 .. Len(Sizes) /\ bytesRead \in Nat
          /\ \A k \in DOMAIN parts : k \in SeqNo /\ parts[k] \in Seq(1 .. Total)
          /\ bytesRead <= BytesToRead(header)
      BY <1>1, <1>3 DEF Stands, Reading
    <2>2. bytesRead \in 0 .. BytesToRead(header)
      BY <1>3, <2>1
    <2>3. QED BY <1>2, <2>1, <2>2, Zenon DEF TypeOK, PacketsInv, BuffersInv
  <1>5. /\ out \in Seq([msg : Ids, data : Seq(Nat)]) /\ Len(out) \in Nat /\ DOMAIN out = 1 .. Len(out)
        /\ \A j \in 1 .. Len(out) : /\ out[j].data = Payload(out[j].msg) /\ out[j].msg \in Ids
                                    /\ Sizes[out[j].msg] > 0 /\ End[out[j].msg] <= at
        /\ \A j, k \in 1 .. Len(out) : k < j => out[k].msg < out[j].msg
    <2>1. HandedOn(out, at)
      BY <1>1 DEF Stands
    <2>2. out \in Seq([msg : Ids, data : Seq(Nat)])
      BY <2>1 DEF HandedOn
    <2>3. Len(out) \in Nat /\ DOMAIN out = 1 .. Len(out)
      BY <2>2
    <2>4. \A j \in 1 .. Len(out) : out[j].msg \in Ids
      <3>. TAKE j \in 1 .. Len(out)
      <3>1. out[j] \in [msg : Ids, data : Seq(Nat)]
        BY <2>2, ElementOfSeq
      <3>2. QED BY <3>1
    <2>5. QED BY <2>1, <2>2, <2>3, <2>4 DEF HandedOn
  <1>6. MessagesWhole
    <2>1. \A j \in DOMAIN out : \A k \in 1 .. j - 1 : out[k].msg < out[j].msg
      <3>. TAKE j \in DOMAIN out
      <3>. TAKE k \in 1 .. j - 1
      <3>1. k \in 1 .. Len(out) /\ j \in 1 .. Len(out) /\ k < j
        BY <1>5
      <3>2. QED BY <1>5, <3>1
    <2>2. QED BY <1>5, <2>1 DEF MessagesWhole
  <1>7. NothingLost
    <2>. SUFFICES ASSUME first = 1, pc = "wait"
                  PROVE  {out[j].msg : j \in DOMAIN out} = {m \in Ids : Sizes[m] > 0 /\ End[m] <= ends[high]}
      BY DEF NothingLost
    <2>1. initialized /\ high \in 1 .. Len(ends) /\ ends \in Seq(1 .. Total)
      BY <1>2 DEF PacketsInv
    <2>2. Taken = ends[high] /\ Taken \in Nat
      <3>1. Len(ends) \in Nat
        BY <2>1
      <3>2. high # 0
        BY <2>1, <3>1
      <3>3. ends[high] \in 1 .. Total
        BY <2>1, ElementOfSeq
      <3>4. QED BY <3>2, <3>3, TotalIs DEF Taken
    <2>3. /\ at \in Nat /\ at <= Taken /\ data = <<>> /\ leftover \in Seq(1 .. Total)
          /\ leftover \o data = Bytes(at + 1, Taken)
      BY <1>1, <1>2 DEF Stands, BuffersInv
    <2>4. Len(leftover) = Taken - at
      <3>1. leftover \o data = leftover
        BY <2>3
      <3>2. QED BY <2>2, <2>3, <3>1, BytesAre
    <2>5. Complete(out, header, at) /\ Reading(header, bytesRead, parts, at)
      BY <1>1 DEF Stands
    <2>6. /\ Len(leftover) <= Header
          /\ BytesToRead(header) > 0 => Len(leftover) < BytesToRead(header) - bytesRead
      BY <1>2, <2>3 DEF BuffersInv
    <2>7. \A m \in Ids : m \in 0 .. Len(Sizes) /\ m - 1 \in 0 .. Len(Sizes) /\ m \in 1 .. Len(Sizes)
      BY Constants DEF Ids
    <2>8. ASSUME NEW m \in Ids, Sizes[m] > 0, End[m] <= Taken
          PROVE  End[m] <= at
      <3>. SUFFICES ASSUME at < End[m] PROVE FALSE
        BY <2>3, <2>7, Ends
      <3>1. End[m] \in Nat
        BY <2>7, Ends
      <3>2. CASE BytesToRead(header) = 0
        <4>1. PICK k \in 0 .. Len(Sizes) : at = End[k]
          BY <2>5, <3>2 DEF Complete
        <4>2. k < m
          <5>. SUFFICES ASSUME m <= k PROVE FALSE
            BY <2>7, Constants
          <5>1. End[m] <= End[k]
            BY <2>7, EndsOrdered
          <5>2. QED BY <2>3, <3>1, <4>1, <5>1
        <4>3. End[k] <= End[m - 1] /\ End[m] = End[m - 1] + Header + Sizes[m]
          BY <2>7, <4>2, Ends, EndsIncrease
        <4>4. Sizes[m] \in Nat /\ End[m - 1] \in Nat
          BY <2>7, Ends, Constants
        <4>5. Header \in Nat /\ End[k] \in Nat
          BY Ends, Constants
        <4>6. Taken <= at + Header
          BY <2>2, <2>3, <2>4, <2>6, <4>5
        <4>7. Taken <= End[k] + Header
          BY <4>1, <4>6
        <4>8. End[m - 1] + Header < End[m]
          BY <2>8, <4>3, <4>4, <4>5
        <4>9. End[k] + Header < End[m]
          BY <3>1, <4>3, <4>4, <4>5, <4>8
        <4>10. QED BY <2>2, <2>8, <3>1, <4>5, <4>7, <4>9
      <3>3. CASE BytesToRead(header) # 0
        <4>1. /\ header \in 1 .. Len(Sizes) /\ BytesToRead(header) = Sizes[header]
              /\ bytesRead < Sizes[header] /\ at = HeaderEnd(header) + bytesRead /\ bytesRead \in Nat
          BY <2>5, <3>3, Constants DEF Reading, BytesToRead
        <4>2. /\ End[header] = End[header - 1] + Header + Sizes[header]
              /\ End[header - 1] \in Nat /\ Sizes[header] \in Nat
          BY <4>1, Ends, Constants
        <4>3. at = End[header - 1] + Header + bytesRead
          BY <4>1, <4>2, Constants DEF HeaderEnd, Begin
        <4>4. Taken < End[header]
          <5>1. BytesToRead(header) > 0
            BY <3>3, <4>1, <4>2
          <5>2. Taken - at < Sizes[header] - bytesRead
            BY <2>4, <2>6, <4>1, <5>1
          <5>3. Header \in Nat
            BY Constants
          <5>4. bytesRead \in Nat
            BY <4>1
          <5>5. Taken \in Nat /\ at \in Nat
            BY <2>2, <2>3
          <5>6. QED BY <4>2, <4>3, <5>2, <5>3, <5>4, <5>5
        <4>5. m < header
          <5>. SUFFICES ASSUME header <= m PROVE FALSE
            BY <2>7, <4>1, Constants
          <5>1. End[header] <= End[m]
            BY <2>7, <4>1, EndsOrdered
          <5>2. QED BY <2>2, <2>8, <3>1, <4>2, <4>4, <5>1, Constants
        <4>6. End[m] <= End[header - 1]
          BY <2>7, <4>1, <4>5, EndsIncrease
        <4>7. End[m] <= at
          BY <3>1, <4>1, <4>2, <4>3, <4>6, Constants
        <4>8. QED BY <2>3, <3>1, <4>7
      <3>4. QED BY <3>2, <3>3
    <2>9. \A m \in Ids : Sizes[m] > 0 /\ End[m] <= ends[high] => \E j \in DOMAIN out : out[j].msg = m
      BY <1>5, <2>2, <2>5, <2>8 DEF Complete
    <2>10. \A j \in DOMAIN out : /\ out[j].msg \in Ids /\ Sizes[out[j].msg] > 0
                                 /\ End[out[j].msg] <= ends[high]
      <3>. TAKE j \in DOMAIN out
      <3>1. out[j].msg \in Ids /\ Sizes[out[j].msg] > 0 /\ End[out[j].msg] <= at
        BY <1>5
      <3>2. End[out[j].msg] \in Nat
        BY <2>7, <3>1, Ends
      <3>3. QED BY <2>2, <2>3, <3>1, <3>2
    <2>11. QED BY <2>9, <2>10
  <1>8. QED BY <1>4, <1>6, <1>7

-----------------------------------------------------------------------------
(* The steps.                                                              *)

\* A packet is taken: the number of the next one is expected.
LEMMA TakingKeepsPackets ==
    ASSUME PacketsInv, NEW i \in 1 .. sent, StartParse(i), UNCHANGED <<ends, sent>>,
           acked' \subseteq 1 .. sent,
           \A k \in DOMAIN queue' : k \in DOMAIN queue /\ queue'[k] = queue[k]
    PROVE  PacketsInv'
  <1>1. /\ initialized' = TRUE /\ high' = i /\ seqNo' = Seq16(i) /\ pc' = "parse"
        /\ expected' = IncrementSequence(Seq16(i))
        /\ first' = IF initialized THEN first ELSE i
    BY DEF StartParse
  <1>2. i \in Nat \ {0} /\ sent \in Nat
    BY DEF PacketsInv
  <1>3. expected' = Seq16(i + 1) /\ expected' \in SeqNo /\ seqNo' \in SeqNo
    BY <1>1, <1>2, NextNumber
  <1>4. first' \in 0 .. sent' /\ high' \in 0 .. sent' /\ first' # 0 /\ high' # 0
    BY <1>1, <1>2 DEF PacketsInv
  <1>5. \A k \in DOMAIN queue' : k \in SeqNo /\ queue'[k] \in 1 .. sent /\ Seq16(queue'[k]) = k
    BY DEF PacketsInv
  <1>6. QED BY <1>1, <1>3, <1>4, <1>5 DEF PacketsInv

\* The queue after packet i has come out of order.
QueuedWith(i) == Put(queue, Seq16(i), i)

LEMMA QueuedIs ==
    ASSUME NEW i
    PROVE  /\ DOMAIN QueuedWith(i) = DOMAIN queue \cup {Seq16(i)}
           /\ QueuedWith(i)[Seq16(i)] = i
           /\ \A k \in DOMAIN queue : k # Seq16(i) => QueuedWith(i)[k] = queue[k]
  BY DEF QueuedWith, Put

LEMMA PacketsStep ==
    ASSUME PacketsInv, [Next]_vars
    PROVE  PacketsInv'
  <1>1. CASE Send
    <2>1. /\ sent < Len(ends) /\ sent' = sent + 1
          /\ UNCHANGED <<ends, acked, pc, initialized, expected, queue, first, high, seqNo>>
      BY <1>1 DEF Send, order, builder
    <2>2. \A i \in Int : i \in 0 .. sent => i \in 0 .. sent'
      BY <2>1 DEF PacketsInv
    <2>3. sent' \in 0 .. Len(ends) /\ acked' \subseteq 1 .. sent'
      <3>1. sent \in Nat /\ Len(ends) \in Nat /\ acked \subseteq 1 .. sent
        BY DEF PacketsInv
      <3>2. 1 .. sent \subseteq 1 .. sent + 1
        BY <3>1
      <3>3. QED BY <2>1, <3>1, <3>2
    <2>4. \A k \in DOMAIN queue : k \in SeqNo /\ queue[k] \in 1 .. sent' /\ Seq16(queue[k]) = k
      BY <2>1, <2>2 DEF PacketsInv
    <2>5. first \in 0 .. sent' /\ high \in 0 .. sent'
      BY <2>2 DEF PacketsInv
    <2>6. QED BY <2>1, <2>3, <2>4, <2>5 DEF PacketsInv
  <1>2. ASSUME NEW i \in Packets, Deliver(i)
        PROVE  PacketsInv'
    <2>1. /\ pc = "wait" /\ i \in 1 .. sent /\ acked' \in {acked, acked \cup {i}} /\ Accept(i)
          /\ UNCHANGED <<ends, sent>>
      BY <1>2 DEF Deliver
    <2>2. acked' \subseteq 1 .. sent
      BY <2>1 DEF PacketsInv
    <2>3. CASE ~initialized \/ Seq16(i) = expected
      <3>1. StartParse(i) /\ UNCHANGED queue
        BY <2>1, <2>3 DEF Accept
      <3>2. QED BY <2>1, <2>2, <3>1, TakingKeepsPackets
    <2>4. CASE initialized /\ Seq16(i) # expected
      <3>1. /\ queue' = [k \in {k \in DOMAIN QueuedWith(i) : ~IsSeqBefore(k, expected)} |-> QueuedWith(i)[k]]
            /\ UNCHANGED <<pc, initialized, expected, first, high, seqNo>>
        BY <2>1, <2>4 DEF Accept, builder, QueuedWith
      <3>2. Seq16(i) \in SeqNo
        <4>1. i \in Nat \ {0}
          BY <2>1
        <4>2. QED BY <4>1, NextNumber
      <3>3. \A k \in DOMAIN queue' : k \in SeqNo /\ queue'[k] \in 1 .. sent /\ Seq16(queue'[k]) = k
        <4>1. \A k \in DOMAIN QueuedWith(i) : /\ k \in SeqNo /\ QueuedWith(i)[k] \in 1 .. sent
                                              /\ Seq16(QueuedWith(i)[k]) = k
          <5>. TAKE k \in DOMAIN QueuedWith(i)
          <5>1. CASE k = Seq16(i)
            BY <2>1, <3>2, <5>1, QueuedIs
          <5>2. CASE k # Seq16(i)
            <6>1. k \in DOMAIN queue /\ QueuedWith(i)[k] = queue[k]
              BY <5>2, QueuedIs
            <6>2. QED BY <6>1 DEF PacketsInv
          <5>3. QED BY <5>1, <5>2
        <4>2. QED BY <3>1, <4>1
      <3>4. QED BY <2>1, <2>2, <3>1, <3>3 DEF PacketsInv
    <2>5. QED BY <2>3, <2>4
  <1>3. CASE NextQueued
    <2>1. UNCHANGED <<ends, sent, acked>> /\ acked' \subseteq 1 .. sent
      BY <1>3 DEF NextQueued, station, PacketsInv
    <2>2. CASE expected \in DOMAIN queue
      <3>1. StartParse(queue[expected]) /\ queue' = [k \in DOMAIN queue \ {expected} |-> queue[k]]
        BY <1>3, <2>2 DEF NextQueued
      <3>2. queue[expected] \in 1 .. sent
        BY <2>2 DEF PacketsInv
      <3>3. \A k \in DOMAIN queue' : k \in DOMAIN queue /\ queue'[k] = queue[k]
        BY <3>1
      <3>4. QED BY <2>1, <3>1, <3>2, <3>3, TakingKeepsPackets
    <2>3. CASE expected \notin DOMAIN queue
      <3>1. pc' = "wait" /\ UNCHANGED <<initialized, expected, queue, first, high, seqNo>>
        BY <1>3, <2>3 DEF NextQueued, order, builder
      <3>2. QED BY <2>1, <3>1 DEF PacketsInv
    <2>4. QED BY <2>2, <2>3
  <1>4. CASE Parse
    <2>1. pc = "parse" /\ UNCHANGED <<ends, sent, acked, initialized, expected, queue, first, high, seqNo>>
      BY <1>4 DEF Parse, station, order, builder
    <2>2. pc' \in {"parse", "next"}
      BY <1>4, <2>1 DEF Parse
    <2>3. QED BY <2>1, <2>2 DEF PacketsInv
  <1>5. CASE UNCHANGED vars
    BY <1>5 DEF vars, station, order, builder, PacketsInv
  <1>6. QED BY <1>1, <1>2, <1>3, <1>4, <1>5 DEF Next

\* A step that leaves the parser and what it reads alone.
LEMMA ReaderRests ==
    ASSUME ChannelInv, PacketsInv', UNCHANGED <<builder, ends, initialized, first, high>>,
           pc' # "parse" => data = <<>>
    PROVE  ChannelInv'
  <1>. USE DEF builder
  <1>1. BuffersInv'
    BY DEF ChannelInv, BuffersInv
  <1>2. PICK at : Stands(at)
    BY DEF ChannelInv
  <1>3. Stands(at)'
    <2>1. UNCHANGED Taken
      BY DEF Taken
    <2>2. Reading(header, bytesRead, parts, at)'
      BY <1>2 DEF Stands, Reading
    <2>3. QED BY <1>2, <2>1, <2>2 DEF Stands
  <1>4. QED BY <1>1, <1>3 DEF ChannelInv

\* A packet: the one after the last, or the first there is.
LEMMA StartKeeps ==
    ASSUME ChannelInv, PacketsInv', NEW i \in 1 .. sent, initialized => i = high + 1,
           data = <<>>, StartParse(i), UNCHANGED <<ends, sent>>,
           \A k \in DOMAIN parts : PartBefore(k, Seq16(i))
    PROVE  ChannelInv'
  <1>0. /\ PacketsInv /\ BuffersInv /\ \E at : Stands(at)
    BY DEF ChannelInv
  <1>1. /\ initialized' = TRUE /\ high' = i /\ seqNo' = Seq16(i) /\ pc' = "parse"
        /\ expected' = IncrementSequence(Seq16(i))
        /\ first' = IF initialized THEN first ELSE i
        /\ data' = leftover \o Content(i) /\ leftover' = <<>>
        /\ UNCHANGED <<header, bytesRead, parts, out, ends, sent>>
    BY DEF StartParse
  <1>2. i \in 1 .. Len(ends) /\ i \in Nat /\ i # 0 /\ Len(ends) \in Nat
    BY <1>0, Constants DEF PacketsInv
  <1>. DEFINE start == IF i = 1 THEN 0 ELSE ends[i - 1]
  <1>4. ends[i] \in 1 .. Total
    BY <1>0, <1>2, ElementOfSeq DEF PacketsInv
  <1>5. start \in Nat /\ start < ends[i] /\ ends[i] \in Nat /\ ends[i] <= Total
    <2>1. CASE i = 1
      BY <1>4, <2>1, TotalIs
    <2>2. CASE i # 1
      <3>1. i - 1 \in 1 .. Len(ends) /\ i - 1 < i
        BY <1>2, <2>2
      <3>2. ends[i - 1] \in 1 .. Total
        BY <1>0, <3>1, ElementOfSeq DEF PacketsInv
      <3>3. ends[i - 1] < ends[i]
        BY <1>0, <1>2, <3>1 DEF PacketsInv
      <3>4. QED BY <1>4, <2>2, <3>2, <3>3, TotalIs
    <2>3. QED BY <2>1, <2>2
  <1>6. Content(i) = Bytes(start + 1, ends[i])
    BY DEF Content
  <1>7. Taken' = ends[i] /\ Taken' \in Nat
    BY <1>1, <1>2, <1>5 DEF Taken
  <1>8. PICK at : Stands(at)
    BY <1>0
  <1>. HIDE DEF start
  <1>8a. PICK now : now = IF initialized THEN at ELSE start
    OBVIOUS
  <1>9. now \in Nat /\ now <= start /\ leftover = Bytes(now + 1, start)
    <2>1. at \in Nat /\ at <= Taken /\ leftover \o data = Bytes(at + 1, Taken)
      BY <1>8 DEF Stands
    <2>2. CASE initialized
      <3>1. high \in Nat /\ high # 0 /\ i = high + 1
        BY <1>0, <2>2 DEF PacketsInv
      <3>2. start = Taken
        BY <3>1 DEF start, Taken
      <3>3. leftover \o data = leftover
        BY <1>0 DEF BuffersInv
      <3>4. QED BY <1>8a, <2>1, <2>2, <3>2, <3>3
    <2>3. CASE ~initialized
      <3>1. leftover = <<>>
        BY <1>0, <2>3 DEF BuffersInv
      <3>2. Bytes(start + 1, start) = <<>>
        BY <1>5 DEF Bytes
      <3>3. QED BY <1>5, <1>8a, <2>3, <3>1, <3>2
    <2>4. QED BY <2>2, <2>3
  <1>10. data' = Bytes(now + 1, ends[i])
    <2>1. Bytes(now + 1, start) \o Bytes(start + 1, ends[i]) = Bytes(now + 1, ends[i])
      <3>1. now \in Nat /\ start \in Nat /\ ends[i] \in Nat /\ now <= start /\ start <= ends[i]
        BY <1>5, <1>9
      <3>2. QED BY <3>1, BytesJoin
    <2>2. QED BY <1>1, <1>6, <1>9, <2>1
  <1>11. data' \in Seq(1 .. Total) /\ Len(data') = ends[i] - now /\ data' # <<>>
    <2>1. now <= ends[i]
      BY <1>5, <1>9
    <2>2. data' \in Seq(1 .. Total) /\ Len(data') = ends[i] - now
      BY <1>5, <1>9, <1>10, <2>1, BytesAre, TotalIs
    <2>3. Len(data') # 0
      BY <1>5, <1>9, <2>2
    <2>4. QED BY <2>2, <2>3
  <1>12. \A k \in DOMAIN parts : k \in SeqNo
    BY <1>8 DEF Stands, Reading
  <1>13. high \in Nat /\ high < i
    <2>1. high \in Nat /\ (~initialized => high = 0)
      BY <1>0 DEF PacketsInv
    <2>2. QED BY <1>2, <2>1
  <1>14. BuffersInv'
    <2>1. Seq16(i) \notin DOMAIN parts
      BY <1>12, PartBeforeIsStrict
    <2>2. <<>> \in Seq(1 .. Total) /\ Len(<<>>) = 0
      OBVIOUS
    <2>3. QED BY <1>1, <1>11, <2>1, <2>2, Constants DEF BuffersInv
  <1>15. Stands(now)'
    <2>1. now <= Taken' /\ leftover' \o data' = Bytes(now + 1, Taken')
      <3>1. <<>> \o data' = data'
        BY <1>11
      <3>2. QED BY <1>1, <1>5, <1>7, <1>9, <1>10, <3>1
    <2>2. Reading(header, bytesRead, parts, at)
      BY <1>8 DEF Stands
    <2>3. \A k \in DOMAIN parts : /\ k \in SeqNo /\ parts[k] \in Seq(1 .. Total)
                                  /\ \E j \in 1 .. i : k = Seq16(j)
      BY <1>13, <2>2 DEF Reading
    <2>4. Reading(header, bytesRead, parts, now)'
      <3>1. CASE BytesToRead(header) = 0
        <4>1. PICK I : GivenBy(I, parts, high)
          BY <2>2, <3>1 DEF Reading
        <4>2. GivenBy(I, parts, i)
          BY <1>2, <1>13, <4>1, GiversOfLater
        <4>3. Reading(header, bytesRead, parts, at) => (Reading(header, bytesRead, parts, now))'
          BY <1>1, <2>3, <3>1, <4>2 DEF Reading
        <4>4. QED BY <2>2, <4>3
      <3>2. CASE BytesToRead(header) # 0
        <4>1. initialized
          BY <1>0, <3>2 DEF BuffersInv, BytesToRead
        <4>2. /\ header \in 0 .. Len(Sizes) /\ bytesRead \in Nat /\ bytesRead < BytesToRead(header)
              /\ at = HeaderEnd(header) + bytesRead
              /\ Pieces(parts, high, HeaderEnd(header), bytesRead)
          BY <2>2, <3>2 DEF Reading
        <4>3. HeaderEnd(header) \in Nat
          <5>1. header \in 1 .. Len(Sizes) /\ header - 1 \in 0 .. Len(Sizes)
            BY <3>2, <4>2, Constants DEF BytesToRead
          <5>2. End[header - 1] \in Nat
            BY <5>1, Ends
          <5>3. QED BY <5>2, Constants DEF HeaderEnd, Begin
        <4>4. i = high + 1 /\ high \in Nat /\ \A k \in DOMAIN parts : PartBefore(k, Seq16(high + 1))
          BY <1>13, <4>1
        <4>5. Pieces(parts, i, HeaderEnd(header), bytesRead)
          BY <4>2, <4>3, <4>4, PiecesOfNext
        <4>6. now = at
          BY <1>8a, <4>1
        <4>7. QED BY <1>1, <2>3, <3>2, <4>2, <4>5, <4>6 DEF Reading
      <3>3. QED BY <3>1, <3>2
    <2>5. HandedOn(out', now)
      <3>1. CASE initialized
        BY <1>1, <1>8, <1>8a, <3>1 DEF Stands
      <3>2. CASE ~initialized
        <4>1. out' = <<>>
          BY <1>0, <1>1, <3>2 DEF BuffersInv
        <4>2. QED BY <4>1 DEF HandedOn
      <3>3. QED BY <3>1, <3>2
    <2>6. first' = 1 => Complete(out', header', now)
      <3>. SUFFICES ASSUME first' = 1 PROVE Complete(out', header', now)
        OBVIOUS
      <3>1. CASE initialized
        BY <1>1, <1>8, <1>8a, <3>1 DEF Stands
      <3>2. CASE ~initialized
        <4>1. now = 0
          BY <1>1, <1>8a, <3>2 DEF start
        <4>2. \A m \in Ids : End[m] > 0
          <5>. TAKE m \in Ids
          <5>1. m \in 1 .. Len(Sizes) /\ m \in 0 .. Len(Sizes) /\ 0 \in 0 .. Len(Sizes) /\ 0 < m
            BY Constants DEF Ids
          <5>2. QED BY <5>1, Ends, EndsIncrease
        <4>3. \A m \in Ids : ~(End[m] <= 0)
          <5>. TAKE m \in Ids
          <5>1. m \in 0 .. Len(Sizes)
            BY Constants DEF Ids
          <5>2. QED BY <4>2, <5>1, Ends
        <4>4. 0 \in 0 .. Len(Sizes) /\ End[0] = 0
          BY Ends, Constants
        <4>5. QED BY <4>1, <4>3, <4>4 DEF Complete
      <3>3. QED BY <3>1, <3>2
    <2>7. QED BY <1>9, <2>1, <2>4, <2>5, <2>6 DEF Stands
  <1>16. QED BY <1>14, <1>15 DEF ChannelInv

\* A packet that is taken, in order and with the parts before it.
LEMMA TakenKeeps ==
    ASSUME ChannelInv, PacketsInv', TakenInOrder, PartsCompare, NEW i \in 1 .. sent,
           initialized => Seq16(i) = expected,
           data = <<>>, StartParse(i), UNCHANGED <<ends, sent>>
    PROVE  ChannelInv'
  <1>1. PacketsInv
    BY DEF ChannelInv
  <1>2. high' = i /\ seqNo' = Seq16(i) /\ i \in Nat \ {0}
    BY <1>1 DEF StartParse, PacketsInv
  <1>3. i # high
    <2>1. CASE initialized
      <3>1. high \in Nat \ {0} /\ expected = Seq16(high + 1) /\ high + 1 \in Nat \ {0}
        BY <1>1, <2>1 DEF PacketsInv
      <3>2. SUFFICES ASSUME i = high PROVE FALSE
        OBVIOUS
      <3>3. Seq16(high) = Seq16(high + 1) /\ high - (high + 1) < Modulus /\ (high + 1) - high < Modulus
        BY <2>1, <3>1, <3>2, Constants
      <3>4. high = high + 1
        BY <3>1, <3>3, NumbersDiffer
      <3>5. QED BY <3>1, <3>4
    <2>2. CASE ~initialized
      BY <1>1, <1>2, <2>2 DEF PacketsInv
    <2>3. QED BY <2>1, <2>2
  <1>4. initialized => i = high + 1
    BY <1>2, <1>3 DEF TakenInOrder
  <1>5. \A k \in DOMAIN parts : PartBefore(k, Seq16(i))
    BY <1>2, <1>3 DEF PartsCompare
  <1>6. QED BY <1>4, <1>5, StartKeeps

LEMMA SendKeeps ==
    ASSUME ChannelInv, PacketsInv', Send
    PROVE  ChannelInv'
  <1>1. PacketsInv /\ (pc # "parse" => data = <<>>)
    BY DEF ChannelInv, BuffersInv
  <1>2. UNCHANGED <<builder, ends, initialized, first, high, pc>>
    BY DEF Send, order
  <1>3. UNCHANGED <<builder, ends, initialized, first, high>> /\ (pc' # "parse" => data = <<>>)
    BY <1>1, <1>2
  <1>4. QED BY <1>3, ReaderRests

LEMMA DeliverKeeps ==
    ASSUME ChannelInv, PacketsInv', TakenInOrder, PartsCompare, NEW i \in Packets, Deliver(i)
    PROVE  ChannelInv'
  <1>1. PacketsInv /\ (pc # "parse" => data = <<>>)
    BY DEF ChannelInv, BuffersInv
  <1>2. pc = "wait" /\ i \in 1 .. sent /\ Accept(i) /\ UNCHANGED <<ends, sent>>
    BY DEF Deliver
  <1>3. data = <<>>
    BY <1>1, <1>2
  <1>4. CASE ~initialized \/ Seq16(i) = expected
    <2>1. StartParse(i) /\ (initialized => Seq16(i) = expected)
      BY <1>2, <1>4 DEF Accept
    <2>2. QED BY <1>2, <1>3, <2>1, TakenKeeps
  <1>5. CASE initialized /\ Seq16(i) # expected
    <2>1. UNCHANGED <<pc, initialized, expected, first, high, builder>>
      BY <1>2, <1>5 DEF Accept
    <2>2. UNCHANGED <<builder, ends, initialized, first, high>> /\ (pc' # "parse" => data = <<>>)
      BY <1>2, <1>3, <2>1
    <2>3. QED BY <2>2, ReaderRests
  <1>6. QED BY <1>4, <1>5

LEMMA NextQueuedKeeps ==
    ASSUME ChannelInv, PacketsInv', TakenInOrder, PartsCompare, NextQueued
    PROVE  ChannelInv'
  <1>1. PacketsInv /\ (pc # "parse" => data = <<>>)
    BY DEF ChannelInv, BuffersInv
  <1>2. pc = "next" /\ data = <<>> /\ UNCHANGED <<ends, sent>>
    BY <1>1 DEF NextQueued, station
  <1>3. CASE expected \in DOMAIN queue
    <2>1. StartParse(queue[expected])
      BY <1>3 DEF NextQueued
    <2>2. queue[expected] \in 1 .. sent /\ Seq16(queue[expected]) = expected
      BY <1>1, <1>3 DEF PacketsInv
    <2>3. QED BY <1>2, <2>1, <2>2, TakenKeeps
  <1>4. CASE expected \notin DOMAIN queue
    <2>1. pc' = "wait" /\ UNCHANGED <<order, builder>>
      BY <1>4 DEF NextQueued
    <2>2. UNCHANGED <<builder, ends, initialized, first, high>> /\ (pc' # "parse" => data = <<>>)
      BY <1>2, <2>1 DEF order
    <2>3. QED BY <2>2, ReaderRests
  <1>5. QED BY <1>3, <1>4

\* A header is found where a message begins, and nowhere else.
LEMMA FirstPartIs ==
    ASSUME NEW at \in Nat, NEW to \in Nat, at <= to, NEW m
    PROVE  m \in FirstPart(Bytes(at + 1, to)) <=> m \in Ids /\ to - at >= Magic /\ at = End[m - 1]
  <1>. DEFINE d == Bytes(at + 1, to)
  <1>1. Len(d) = to - at
    BY BytesAre
  <1>2. SUFFICES ASSUME m \in Ids, to - at >= Magic
                 PROVE  SubSeq(d, 1, Magic) = Bytes(Begin(m), Begin(m) + Magic - 1) <=> at = End[m - 1]
    BY <1>1 DEF FirstPart
  <1>3. End[m - 1] \in Nat
    <2>1. m - 1 \in 0 .. Len(Sizes)
      BY <1>2, Constants DEF Ids
    <2>2. QED BY <2>1, Ends
  <1>4. SubSeq(d, 1, Magic) = Bytes(at + 1, at + Magic)
    <2>1. Magic \in Nat /\ at + Magic <= to
      BY <1>2, Constants
    <2>2. QED BY <2>1, BytesSub
  <1>. DEFINE e == End[m - 1]
  <1>5. Bytes(Begin(m), Begin(m) + Magic - 1) = Bytes(e + 1, e + Magic)
    <2>1. Begin(m) = e + 1 /\ Begin(m) + Magic - 1 = e + Magic
      BY <1>3, Constants DEF Begin
    <2>2. QED BY <2>1
  <1>. HIDE DEF d, e
  <1>6. e \in Nat
    BY <1>3 DEF e
  <1>7. Bytes(at + 1, at + Magic)[1] = at + 1 /\ Bytes(e + 1, e + Magic)[1] = e + 1
    <2>1. 1 \in 1 .. Magic /\ Magic \in Nat /\ (at + Magic) - at = Magic /\ (e + Magic) - e = Magic
      BY <1>6, Constants
    <2>2. Bytes(at + 1, at + Magic) = [k \in 1 .. (at + Magic) - at |-> at + k]
      BY <2>1, BytesAre
    <2>3. Bytes(e + 1, e + Magic) = [k \in 1 .. (e + Magic) - e |-> e + k]
      BY <1>6, <2>1, BytesAre
    <2>4. QED BY <2>1, <2>2, <2>3
  <1>8. Bytes(at + 1, at + Magic) = Bytes(e + 1, e + Magic) <=> at = e
    BY <1>6, <1>7
  <1>9. QED BY <1>4, <1>5, <1>8 DEF e

LEMMA RestIs ==
    ASSUME leftover = <<>>, NEW e \in Seq(1 .. Total), Rest(e)
    PROVE  /\ leftover' \in Seq(1 .. Total) /\ data' \in Seq(1 .. Total)
           /\ leftover' = <<>> \/ data' = <<>>
           /\ leftover' \o data' = e /\ Len(leftover') <= Header
  <1>1. e \o <<>> = e /\ <<>> \o e = e /\ <<>> \in Seq(1 .. Total) /\ Len(<<>>) = 0
    OBVIOUS
  <1>2. CASE Len(e) <= Header
    BY <1>1, <1>2 DEF Rest
  <1>3. CASE ~(Len(e) <= Header)
    BY <1>1, <1>3, Constants DEF Rest
  <1>4. QED BY <1>2, <1>3

\* A turn of the parser, which brings it to byte "at".
LEMMA TurnKeeps ==
    ASSUME ChannelInv, pc = "parse", initialized, UNCHANGED <<station, order, pc, seqNo>>,
           NEW at \in Nat, at <= Taken,
           leftover' \in Seq(1 .. Total), data' \in Seq(1 .. Total),
           leftover' = <<>> \/ data' = <<>>,
           leftover' \o data' = Bytes(at + 1, Taken), Len(leftover') <= Header,
           data' # <<>> /\ Seq16(high) \in DOMAIN parts' => parts'[Seq16(high)] = <<>>,
           data' = <<>> /\ BytesToRead(header') > 0 => Len(leftover') < BytesToRead(header') - bytesRead',
           Reading(header', bytesRead', parts', at), HandedOn(out', at),
           first = 1 => Complete(out', header', at)
    PROVE  ChannelInv'
  <1>1. PacketsInv
    BY DEF ChannelInv
  <1>2. UNCHANGED <<ends, sent, acked, initialized, expected, queue, first, high, pc, seqNo>>
    BY DEF station, order
  <1>3. PacketsInv'
    BY <1>1, <1>2 DEF PacketsInv
  <1>4. BuffersInv'
    <2>1. pc' = "parse" /\ initialized' /\ high' = high
      BY <1>2
    <2>2. QED BY <2>1 DEF BuffersInv
  <1>5. Stands(at)'
    <2>1. Taken' = Taken
      BY <1>2 DEF Taken
    <2>2. Reading(header, bytesRead, parts, at)'
      BY <1>2 DEF Reading
    <2>3. QED BY <1>2, <2>1, <2>2 DEF Stands
  <1>6. QED BY <1>3, <1>4, <1>5 DEF ChannelInv

\* Where the payload of message h lies.
LEMMA PayloadIs ==
    ASSUME NEW h \in 1 .. Len(Sizes)
    PROVE  /\ HeaderEnd(h) \in Nat /\ HeaderEnd(h) = End[h - 1] + Header
           /\ End[h - 1] \in Nat /\ End[h - 1] < HeaderEnd(h) /\ End[h] = HeaderEnd(h) + Sizes[h]
           /\ Payload(h) = Bytes(HeaderEnd(h) + 1, HeaderEnd(h) + Sizes[h])
           /\ Payload(h) \in Seq(Nat)
  <1>1. h - 1 \in 0 .. Len(Sizes) /\ Sizes[h] \in Nat
    BY Constants
  <1>2. End[h - 1] \in Nat /\ End[h] = End[h - 1] + Header + Sizes[h]
    BY <1>1, Ends
  <1>. DEFINE from == HeaderEnd(h)
  <1>3. from = End[h - 1] + Header /\ Begin(h) + Header = from + 1
    BY <1>2, Constants DEF HeaderEnd, Begin
  <1>4. from \in Nat /\ End[h - 1] < from /\ End[h] = from + Sizes[h]
    BY <1>1, <1>2, <1>3, Constants
  <1>. HIDE DEF from
  <1>5. Payload(h) = Bytes(from + 1, from + Sizes[h])
    BY <1>3, <1>4 DEF Payload
  <1>6. from <= from + Sizes[h] /\ from + Sizes[h] \in Nat
    BY <1>1, <1>4
  <1>7. Bytes(from + 1, from + Sizes[h]) \in Seq(Nat)
    BY <1>4, <1>6, BytesAre
  <1>8. QED BY <1>2, <1>3, <1>4, <1>5, <1>7 DEF from

LEMMA HandedOnIs ==
    ASSUME NEW o, NEW at \in Nat, HandedOn(o, at)
    PROVE  /\ o \in Seq([msg : Ids, data : Seq(Nat)]) /\ Len(o) \in Nat
           /\ \A j \in 1 .. Len(o) : /\ o[j].msg \in 1 .. Len(Sizes) /\ End[o[j].msg] \in Nat
                                     /\ o[j].data = Payload(o[j].msg)
                                     /\ Sizes[o[j].msg] > 0 /\ End[o[j].msg] <= at
           /\ \A j, k \in 1 .. Len(o) : k < j => o[k].msg < o[j].msg
  <1>1. o \in Seq([msg : Ids, data : Seq(Nat)]) /\ Len(o) \in Nat
    BY DEF HandedOn
  <1>2. ASSUME NEW j \in 1 .. Len(o)
        PROVE  o[j].msg \in 1 .. Len(Sizes) /\ End[o[j].msg] \in Nat
    <2>1. o[j] \in [msg : Ids, data : Seq(Nat)]
      BY <1>1, ElementOfSeq
    <2>2. o[j].msg \in 1 .. Len(Sizes)
      BY <2>1 DEF Ids
    <2>3. o[j].msg \in 0 .. Len(Sizes)
      BY <2>2, Constants
    <2>4. QED BY <2>2, <2>3, Ends
  <1>3. QED BY <1>1, <1>2 DEF HandedOn

LEMMA HandedOnLater ==
    ASSUME NEW o, NEW a \in Nat, NEW b \in Nat, a <= b, HandedOn(o, a)
    PROVE  HandedOn(o, b)
  <1>1. \A j \in 1 .. Len(o) : End[o[j].msg] \in Nat /\ End[o[j].msg] <= a
    BY HandedOnIs
  <1>2. \A j \in 1 .. Len(o) : End[o[j].msg] <= b
    BY <1>1
  <1>3. QED BY <1>2 DEF HandedOn

\* In the middle of message h it is the messages before that have ended.
LEMMA EndedBefore ==
    ASSUME NEW h \in 1 .. Len(Sizes), NEW at \in Nat, End[h - 1] <= at, NEW m \in Ids,
           End[m] < End[h]
    PROVE  m < h /\ End[m] <= at
  <1>1. h - 1 \in 0 .. Len(Sizes) /\ h \in 0 .. Len(Sizes) /\ m \in 0 .. Len(Sizes) /\ h \in Nat /\ m \in Nat
    BY Constants DEF Ids
  <1>2. m < h
    BY <1>1, EndsOrdered
  <1>3. End[m] <= End[h - 1] /\ End[m] \in Nat /\ End[h - 1] \in Nat
    BY <1>1, <1>2, EndsIncrease, Ends
  <1>4. QED BY <1>2, <1>3

\* The message that is being read is the next one to be handed on.
LEMMA OneMore ==
    ASSUME NEW o, NEW h \in 1 .. Len(Sizes), Sizes[h] > 0, NEW at \in Nat,
           End[h - 1] <= at, at < End[h], HandedOn(o, at),
           NEW new, new = Append(o, [msg |-> h, data |-> Payload(h)])
    PROVE  /\ HandedOn(new, End[h])
           /\ Complete(o, h, at) => Complete(new, 0, End[h])
  <1>1. /\ o \in Seq([msg : Ids, data : Seq(Nat)]) /\ Len(o) \in Nat
        /\ \A j \in 1 .. Len(o) : /\ o[j].msg \in 1 .. Len(Sizes) /\ End[o[j].msg] \in Nat
                                  /\ o[j].data = Payload(o[j].msg)
                                  /\ Sizes[o[j].msg] > 0 /\ End[o[j].msg] <= at
        /\ \A j, k \in 1 .. Len(o) : k < j => o[k].msg < o[j].msg
    BY HandedOnIs
  <1>2. h \in 0 .. Len(Sizes) /\ h \in Ids /\ End[h] \in Nat /\ Payload(h) \in Seq(Nat)
    <2>1. h \in 0 .. Len(Sizes) /\ h \in Ids
      BY Constants DEF Ids
    <2>2. QED BY <2>1, Ends, PayloadIs
  <1>. DEFINE r == [msg |-> h, data |-> Payload(h)]
  <1>3. r \in [msg : Ids, data : Seq(Nat)] /\ r.msg = h /\ r.data = Payload(h)
    BY <1>2
  <1>. HIDE DEF r
  <1>4. /\ new \in Seq([msg : Ids, data : Seq(Nat)]) /\ Len(new) = Len(o) + 1
        /\ new[Len(o) + 1] = r
        /\ \A j \in 1 .. Len(o) : new[j] = o[j]
    BY <1>1, <1>3 DEF r
  <1>5. \A j \in 1 .. Len(new) : j = Len(o) + 1 \/ j \in 1 .. Len(o)
    BY <1>1, <1>4
  <1>6. HandedOn(new, End[h])
    <2>1. ASSUME NEW j \in 1 .. Len(new)
          PROVE  new[j].data = Payload(new[j].msg) /\ Sizes[new[j].msg] > 0 /\ End[new[j].msg] <= End[h]
      <3>1. CASE j = Len(o) + 1
        BY <1>2, <1>3, <1>4, <3>1
      <3>2. CASE j \in 1 .. Len(o)
        <4>1. /\ new[j] = o[j] /\ End[o[j].msg] \in Nat /\ End[o[j].msg] <= at
              /\ o[j].data = Payload(o[j].msg) /\ Sizes[o[j].msg] > 0
          BY <1>1, <1>4, <3>2
        <4>2. End[o[j].msg] <= End[h]
          BY <1>2, <4>1
        <4>3. QED BY <4>1, <4>2
      <3>3. QED BY <1>5, <3>1, <3>2
    <2>2. ASSUME NEW j \in 1 .. Len(new), NEW k \in 1 .. Len(new), k < j
          PROVE  new[k].msg < new[j].msg
      <3>1. k \in 1 .. Len(o) /\ new[k] = o[k]
        BY <1>1, <1>4, <2>2
      <3>2. CASE j = Len(o) + 1
        <4>1. o[k].msg \in Ids /\ End[o[k].msg] \in Nat /\ End[o[k].msg] <= at
          BY <1>1, <3>1 DEF Ids
        <4>2. End[o[k].msg] < End[h]
          BY <1>2, <4>1
        <4>3. o[k].msg < h
          BY <4>1, <4>2, EndedBefore
        <4>4. QED BY <1>3, <1>4, <3>1, <3>2, <4>3
      <3>3. CASE j \in 1 .. Len(o)
        BY <1>1, <1>4, <2>2, <3>1, <3>3
      <3>4. QED BY <1>5, <3>2, <3>3
    <2>3. QED BY <1>4, <2>1, <2>2 DEF HandedOn
  <1>7. ASSUME Complete(o, h, at)
        PROVE  Complete(new, 0, End[h])
    <2>1. ASSUME NEW m \in Ids, Sizes[m] > 0, End[m] <= End[h]
          PROVE  \E j \in 1 .. Len(new) : new[j].msg = m
      <3>1. m \in 0 .. Len(Sizes) /\ End[m] \in Nat
        <4>1. m \in 0 .. Len(Sizes)
          BY Constants DEF Ids
        <4>2. QED BY <4>1, Ends
      <3>2. CASE End[m] = End[h]
        <4>1. m = h
          <5>1. m <= h /\ h <= m
            BY <1>2, <3>1, <3>2, EndsOrdered
          <5>2. QED BY <1>2, <3>1, <5>1, Constants
        <4>2. Len(o) + 1 \in 1 .. Len(new)
          BY <1>1, <1>4
        <4>3. QED BY <1>3, <1>4, <4>1, <4>2
      <3>3. CASE End[m] < End[h]
        <4>1. End[m] <= at
          BY <3>3, EndedBefore
        <4>2. PICK j \in 1 .. Len(o) : o[j].msg = m
          BY <1>7, <2>1, <4>1 DEF Complete
        <4>3. j \in 1 .. Len(new) /\ new[j] = o[j]
          BY <1>1, <1>4
        <4>4. QED BY <4>2, <4>3
      <3>4. QED BY <1>2, <2>1, <3>1, <3>2, <3>3
    <2>2. QED BY <1>2, <2>1 DEF Complete
  <1>8. QED BY <1>6, <1>7

\* One turn that gives bytes to message h.
LEMMA ConsumeKeeps ==
    ASSUME ChannelInv, pc = "parse", UNCHANGED <<station, order, pc, seqNo>>,
           data # <<>>, NEW h, NEW d, NEW at \in Nat, at <= Taken, d = Bytes(at + 1, Taken),
           Reading(h, bytesRead, parts, at), HandedOn(out, at), first = 1 => Complete(out, h, at),
           Consume(h, bytesRead, d)
    PROVE  ChannelInv'
  <1>. DEFINE total == BytesToRead(h)
              need == total - bytesRead
              from == HeaderEnd(h)
  <1>1. PacketsInv /\ BuffersInv
    BY DEF ChannelInv
  <1>2. initialized /\ high \in Nat \ {0} /\ high \in Nat /\ seqNo = Seq16(high) /\ seqNo \in SeqNo
    BY <1>1 DEF PacketsInv
  <1>3. leftover = <<>> /\ (seqNo \in DOMAIN parts => parts[seqNo] = <<>>)
    BY <1>1, <1>2 DEF BuffersInv
  <1>4. Taken \in Nat /\ Taken <= Total
    <2>1. high # 0 /\ high \in 1 .. Len(ends) /\ ends \in Seq(1 .. Total)
      BY <1>1, <1>2 DEF PacketsInv
    <2>2. ends[high] \in 1 .. Total
      BY <2>1, ElementOfSeq
    <2>3. QED BY <2>1, <2>2, TotalIs DEF Taken
  <1>5. d \in Seq(1 .. Total) /\ Len(d) \in Nat /\ Taken = at + Len(d) /\ Len(d) = Taken - at
    <2>1. Total \in Nat
      BY TotalIs
    <2>2. Bytes(at + 1, Taken) \in Seq(1 .. Total) /\ Len(Bytes(at + 1, Taken)) = Taken - at
      BY <1>4, <2>1, BytesAre
    <2>3. Taken - at \in Nat /\ Taken = at + (Taken - at)
      BY <1>4
    <2>4. QED BY <2>2, <2>3, Zenon
  <1>6. /\ h \in 0 .. Len(Sizes) /\ bytesRead \in Nat /\ total \in Nat
        /\ \A k \in DOMAIN parts : /\ k \in SeqNo /\ parts[k] \in Seq(1 .. Total)
                                   /\ \E i \in 1 .. high : k = Seq16(i)
        /\ IF total = 0
           THEN bytesRead = 0 /\ (\A k \in DOMAIN parts : parts[k] = <<>>) /\ \E I : GivenBy(I, parts, high)
           ELSE bytesRead < total /\ at = from + bytesRead /\ Pieces(parts, high, from, bytesRead)
    <2>1. total \in Nat
      BY Constants DEF Reading, BytesToRead
    <2>2. QED BY <2>1 DEF Reading
  <1>. HIDE DEF total, need, from
  <1>7. UNCHANGED <<station, order, pc, seqNo>> /\ <<>> \in Seq(1 .. Total) /\ Len(<<>>) = 0
    OBVIOUS
  <1>8. ASSUME NEW s \in Seq(1 .. Total)
        PROVE  /\ \A k \in DOMAIN Put(parts, seqNo, s) :
                     /\ k \in SeqNo /\ Put(parts, seqNo, s)[k] \in Seq(1 .. Total)
                     /\ \E i \in 1 .. high : k = Seq16(i)
               /\ Put(parts, seqNo, s)[seqNo] = s
    <2>1. high \in 1 .. high
      BY <1>2
    <2>2. QED BY <1>2, <1>6, <2>1 DEF Put
  <1>9. CASE total = 0
    <2>1. need = 0 /\ bytesRead = 0 /\ Len(d) >= need
      <3>1. bytesRead = 0
        BY <1>6, <1>9, Zenon
      <3>2. need = 0
        BY <1>9, <3>1 DEF need
      <3>3. Len(d) >= 0
        BY <1>5
      <3>4. QED BY <3>1, <3>2, <3>3
    <2>2. SubSeq(d, 1, 0) = <<>> /\ SubSeq(d, 1, Len(d)) = d
      BY <1>5
    <2>3. Finish(h, 0, Put(parts, seqNo, <<>>)) /\ Rest(d)
      <3>1. Finish(h, bytesRead + need, Put(parts, seqNo, SubSeq(d, 1, need)))
        BY <2>1 DEF Consume, total, need
      <3>2. Rest(SubSeq(d, need + 1, Len(d)))
        BY <2>1 DEF Consume, total, need
      <3>3. bytesRead + need = 0 /\ need + 1 = 1
        BY <2>1
      <3>4. QED BY <2>1, <2>2, <3>1, <3>2, <3>3
    <2>4. out' = out /\ header' = h /\ bytesRead' = 0 /\ parts' = Put(parts, seqNo, <<>>)
      BY <1>9, <2>3 DEF Finish, total
    <2>5. /\ leftover' \in Seq(1 .. Total) /\ data' \in Seq(1 .. Total)
          /\ leftover' = <<>> \/ data' = <<>>
          /\ leftover' \o data' = Bytes(at + 1, Taken) /\ Len(leftover') <= Header
      BY <1>3, <1>5, <2>3, RestIs
    <2>6. \A k \in DOMAIN parts' : parts'[k] = <<>>
      BY <1>6, <1>9, <2>4 DEF Put
    <2>7. Reading(header', bytesRead', parts', at)
      <3>1. BytesToRead(header') = 0
        BY <1>9, <2>4 DEF total
      <3>2. \E I : GivenBy(I, parts', high)
        BY <1>2, <1>6, <1>9, <2>4, GiverAdded
      <3>3. QED BY <1>6, <1>7, <1>8, <2>4, <2>6, <3>1, <3>2 DEF Reading
    <2>8. BytesToRead(header') = 0
      BY <1>9, <2>4 DEF total
    <2>9. HandedOn(out', at) /\ (first = 1 => Complete(out', header', at))
      BY <2>4
    <2>10. QED BY <1>2, <1>7, <2>5, <2>6, <2>7, <2>8, <2>9, TurnKeeps
  <1>10. CASE total > 0
    <2>1. /\ bytesRead < total /\ at = from + bytesRead /\ Pieces(parts, high, from, bytesRead)
          /\ need \in Nat /\ need > 0 /\ bytesRead + need = total
      BY <1>6, <1>10 DEF need
    <2>2. h \in 1 .. Len(Sizes) /\ Sizes[h] = total
      BY <1>6, <1>10, Constants DEF total, BytesToRead
    <2>3. /\ from \in Nat /\ End[h - 1] \in Nat /\ End[h - 1] < from /\ End[h] = from + total
          /\ Payload(h) = Bytes(from + 1, from + total)
      BY <2>2, PayloadIs DEF from
    <2>4. End[h - 1] <= at /\ at < End[h] /\ End[h] \in Nat
      BY <1>6, <2>1, <2>3
    <2>5. CASE Len(d) >= need
      <3>. DEFINE q == Put(parts, seqNo, SubSeq(d, 1, need))
                  e == SubSeq(d, need + 1, Len(d))
      <3>1. Finish(h, bytesRead + need, q) /\ Rest(e)
        BY <2>5 DEF Consume, total, need
      <3>2. at + need = End[h] /\ at + need <= Taken
        <4>1. at + need = End[h]
          BY <1>6, <2>1, <2>3
        <4>2. need <= Len(d) /\ Len(d) \in Nat /\ Taken = at + Len(d)
          BY <1>5, <2>1, <2>5
        <4>3. QED BY <2>1, <4>1, <4>2
      <3>3. SubSeq(d, 1, need) = Bytes(at + 1, at + need) /\ e = Bytes(at + need + 1, Taken)
        <4>1. at + need <= Taken /\ need \in Nat /\ Len(d) = Taken - at
          BY <1>5, <2>1, <3>2
        <4>2. /\ SubSeq(Bytes(at + 1, Taken), 1, need) = Bytes(at + 1, at + need)
              /\ SubSeq(Bytes(at + 1, Taken), need + 1, Taken - at) = Bytes(at + need + 1, Taken)
          BY <1>4, <4>1, BytesSub
        <4>3. QED BY <4>1, <4>2, Zenon
      <3>. HIDE DEF q, e
      <3>4. e \in Seq(1 .. Total) /\ e = Bytes(End[h] + 1, Taken)
        <4>1. End[h] <= Taken /\ Total \in Nat
          BY <3>2, TotalIs
        <4>2. Bytes(End[h] + 1, Taken) \in Seq(1 .. Total)
          BY <1>4, <2>4, <4>1, BytesAre
        <4>3. QED BY <3>2, <3>3, <4>2
      <3>5. SortMessageParts(q) = Payload(h)
        <4>1. Bytes(at + 1, at + need) = Bytes(from + bytesRead + 1, from + bytesRead + need)
          BY <2>1
        <4>2. Pieces(q, high, from, bytesRead + need)
          BY <1>2, <1>3, <1>6, <2>1, <2>3, <3>3, <4>1, PieceAdded DEF q
        <4>3. Pieces(q, high, from, total)
          BY <2>1, <4>2
        <4>4. SortMessageParts(q) = Bytes(from + 1, from + total)
          BY <1>2, <1>6, <2>3, <4>3, JoinedParts
        <4>5. QED BY <2>3, <4>4
      <3>6. /\ out' = Append(out, [msg |-> h, data |-> Payload(h)])
            /\ header' = 0 /\ bytesRead' = 0 /\ parts' = NoParts
        <4>1. BytesToRead(h) > 0 /\ bytesRead + need = BytesToRead(h)
          BY <1>10, <2>1 DEF total
        <4>2. QED BY <3>1, <3>5, <4>1 DEF Finish
      <3>7. HandedOn(out', End[h]) /\ (first = 1 => Complete(out', header', End[h]))
        BY <1>10, <2>2, <2>4, <3>6, OneMore
      <3>8. BytesToRead(header') = 0 /\ DOMAIN parts' = {}
        BY <3>6 DEF BytesToRead, NoParts
      <3>9. Reading(header', bytesRead', parts', End[h])
        <4>1. header' \in 0 .. Len(Sizes) /\ bytesRead' \in Nat /\ bytesRead' = 0
          BY <3>6, Constants
        <4>2. GivenBy({}, parts', high)
          BY <3>8 DEF GivenBy
        <4>3. QED BY <3>8, <4>1, <4>2 DEF Reading
      <3>10. /\ leftover' \in Seq(1 .. Total) /\ data' \in Seq(1 .. Total)
             /\ leftover' = <<>> \/ data' = <<>>
             /\ leftover' \o data' = Bytes(End[h] + 1, Taken) /\ Len(leftover') <= Header
        BY <1>3, <3>1, <3>4, RestIs
      <3>11. End[h] <= Taken
        BY <3>2
      <3>12. QED BY <1>2, <1>7, <2>4, <3>7, <3>8, <3>9, <3>10, <3>11, TurnKeeps
    <2>6. CASE Len(d) < need /\ Len(d) <= Header
      <3>1. data' = <<>> /\ leftover' = d /\ Finish(h, bytesRead, parts)
        BY <1>5, <2>1, <2>6 DEF Consume, total, need
      <3>2. UNCHANGED out /\ header' = h /\ bytesRead' = bytesRead /\ parts' = parts
        BY <1>6, <2>1, <3>1 DEF Finish, total
      <3>3. leftover' \o data' = Bytes(at + 1, Taken)
        <4>1. d \o <<>> = d
          BY <1>5
        <4>2. QED BY <3>1, <4>1
      <3>4. Len(leftover') < BytesToRead(header') - bytesRead'
        BY <2>6, <3>1, <3>2 DEF need, total
      <3>5. Reading(header', bytesRead', parts', at)
        BY <3>2
      <3>6. HandedOn(out', at) /\ (first = 1 => Complete(out', header', at))
        BY <3>2
      <3>7. QED BY <1>2, <1>5, <1>7, <2>6, <3>1, <3>3, <3>4, <3>5, <3>6, TurnKeeps
    <2>7. CASE Len(d) < need /\ ~(Len(d) <= Header)
      <3>. DEFINE q == Put(parts, seqNo, d)
                  n == bytesRead + Len(d)
      <3>1. data' = <<>> /\ UNCHANGED leftover /\ Finish(h, n, q)
        BY <1>5, <2>1, <2>7 DEF Consume, total, need
      <3>2. n \in Nat /\ n < total /\ Taken = from + n
        <4>1. bytesRead \in Nat
          BY <1>6
        <4>2. Len(d) \in Nat /\ Len(d) < need /\ need \in Nat
          BY <1>5, <2>1, <2>7
        <4>3. bytesRead + need = total /\ at = from + bytesRead /\ from \in Nat
          BY <2>1, <2>3
        <4>4. Taken = at + Len(d)
          BY <1>5
        <4>. DEFINE len == Len(d)
        <4>. HIDE DEF len
        <4>5. bytesRead + len \in Nat /\ bytesRead + len < total /\ Taken = from + (bytesRead + len)
          BY <4>1, <4>2, <4>3, <4>4 DEF len
        <4>6. QED BY <4>5 DEF len
      <3>3. \A k \in DOMAIN q : /\ k \in SeqNo /\ q[k] \in Seq(1 .. Total)
                                /\ \E i \in 1 .. high : k = Seq16(i)
        BY <1>5, <1>8
      <3>4. Pieces(q, high, from, n)
        <4>1. Bytes(at + 1, Taken) = Bytes(from + bytesRead + 1, from + bytesRead + Len(d))
          BY <1>6, <2>1, <2>3, <3>2, <1>5
        <4>2. Len(d) \in Nat
          BY <1>5
        <4>3. QED BY <1>2, <1>3, <1>6, <2>1, <2>3, <4>1, <4>2, PieceAdded
      <3>. HIDE DEF q, n
      <3>5. UNCHANGED out /\ header' = h /\ bytesRead' = n /\ parts' = q
        BY <3>1, <3>2 DEF Finish, total
      <3>6. leftover' \o data' = Bytes(Taken + 1, Taken)
        <4>1. Bytes(Taken + 1, Taken) = <<>>
          BY <1>4 DEF Bytes
        <4>2. QED BY <1>3, <3>1, <4>1
      <3>7. 0 < BytesToRead(header') - bytesRead'
        BY <1>6, <3>2, <3>5 DEF total
      <3>8. Reading(header', bytesRead', parts', Taken)
        <4>1. BytesToRead(header') # 0
          BY <1>10, <3>5 DEF total
        <4>2. n < BytesToRead(header') /\ Taken = HeaderEnd(header') + n
          BY <3>2, <3>5 DEF total, from
        <4>3. Pieces(parts', high, HeaderEnd(header'), n)
          BY <3>4, <3>5 DEF from
        <4>4. QED BY <1>6, <3>2, <3>3, <3>5, <4>1, <4>2, <4>3 DEF Reading
      <3>9. HandedOn(out', Taken)
        BY <1>4, <3>5, HandedOnLater
      <3>10. first = 1 => Complete(out', header', Taken)
        <4>. SUFFICES ASSUME first = 1 PROVE Complete(out', header', Taken)
          OBVIOUS
        <4>1. Complete(out, h, at) /\ BytesToRead(h) # 0
          BY <1>10 DEF total
        <4>2. ASSUME NEW m \in Ids, End[m] <= Taken
              PROVE  End[m] <= at
          <5>1. m \in 0 .. Len(Sizes)
            BY Constants DEF Ids
          <5>2. End[m] \in Nat
            BY <5>1, Ends
          <5>3. End[m] < End[h]
            BY <1>6, <2>3, <2>4, <3>2, <4>2, <5>2
          <5>4. QED BY <2>2, <2>4, <5>3, EndedBefore
        <4>3. QED BY <3>5, <4>1, <4>2 DEF Complete
      <3>11. leftover' \in Seq(1 .. Total) /\ data' \in Seq(1 .. Total) /\ Len(leftover') <= Header /\ leftover' = <<>>
        BY <1>3, <1>7, <3>1, Constants
      <3>12. leftover' = <<>> \/ data' = <<>>
        BY <3>1
      <3>13. data' = <<>> /\ Len(leftover') = 0
        BY <1>7, <3>1, <3>11
      <3>14. QED BY <1>2, <1>4, <1>7, <3>6, <3>7, <3>8, <3>9, <3>10, <3>11, <3>12, <3>13, TurnKeeps
    <2>8. QED BY <1>5, <2>1, <2>5, <2>6, <2>7, Constants
  <1>11. QED BY <1>6, <1>9, <1>10

\* Inside a message no header is found.
LEMMA NoHeaderInside ==
    ASSUME NEW h \in 1 .. Len(Sizes), NEW n \in Nat, n < Sizes[h], NEW m \in Ids
    PROVE  End[m - 1] # HeaderEnd(h) + n
  <1>1. /\ HeaderEnd(h) \in Nat /\ End[h - 1] \in Nat /\ End[h - 1] < HeaderEnd(h)
        /\ End[h] = HeaderEnd(h) + Sizes[h] /\ Sizes[h] \in Nat
    BY PayloadIs, Constants
  <1>2. m - 1 \in 0 .. Len(Sizes) /\ h - 1 \in 0 .. Len(Sizes) /\ h \in 0 .. Len(Sizes)
    BY Constants DEF Ids
  <1>. DEFINE k == m - 1
  <1>3. k \in 0 .. Len(Sizes) /\ k \in Nat /\ h \in Nat
    BY <1>2, Constants
  <1>. HIDE DEF k
  <1>4. CASE k < h
    <2>1. End[k] <= End[h - 1] /\ End[k] \in Nat
      BY <1>2, <1>3, <1>4, EndsIncrease, Ends
    <2>2. End[k] # HeaderEnd(h) + n
      BY <1>1, <2>1
    <2>3. QED BY <2>2 DEF k
  <1>5. CASE h <= k
    <2>1. End[h] <= End[k] /\ End[k] \in Nat
      BY <1>2, <1>3, <1>5, EndsOrdered, Ends
    <2>2. End[k] # HeaderEnd(h) + n
      BY <1>1, <2>1
    <2>3. QED BY <2>2 DEF k
  <1>6. QED BY <1>3, <1>4, <1>5

LEMMA ParseKeeps ==
    ASSUME ChannelInv, PacketsInv', Parse
    PROVE  ChannelInv'
  <1>1. PacketsInv /\ BuffersInv
    BY DEF ChannelInv
  <1>2. pc = "parse" /\ UNCHANGED <<station, order>>
    BY DEF Parse
  <1>3. initialized /\ high \in Nat
    BY <1>1, <1>2 DEF PacketsInv
  <1>4. CASE data = <<>>
    <2>1. pc' = "next" /\ UNCHANGED builder
      BY <1>4 DEF Parse
    <2>2. UNCHANGED <<builder, ends, initialized, first, high>> /\ (pc' # "parse" => data = <<>>)
      BY <1>2, <1>4, <2>1 DEF station, order
    <2>3. QED BY <2>2, ReaderRests
  <1>5. CASE data # <<>>
    <2>1. leftover = <<>> /\ UNCHANGED <<station, order, pc, seqNo>> /\ (ParseHeader \/ ParseMore)
      BY <1>1, <1>2, <1>5 DEF Parse, BuffersInv
    <2>2. PICK at : Stands(at)
      BY DEF ChannelInv
    <2>3. PICK d \in Seq(1 .. Total) : d = data
      BY <1>1 DEF BuffersInv
    <2>4. PICK h : h = header
      OBVIOUS
    <2>5. /\ at \in Nat /\ at <= Taken /\ d = Bytes(at + 1, Taken) /\ d # <<>>
          /\ Reading(h, bytesRead, parts, at) /\ HandedOn(out, at)
          /\ first = 1 => Complete(out, h, at)
      <3>1. leftover \o data = d
        BY <2>1, <2>3
      <3>2. QED BY <1>5, <2>2, <2>3, <2>4, <3>1 DEF Stands
    <2>6. Taken \in Nat /\ Taken <= Total
      <3>1. high # 0 /\ high \in 1 .. Len(ends) /\ ends \in Seq(1 .. Total)
        BY <1>1, <1>3 DEF PacketsInv
      <3>2. ends[high] \in 1 .. Total
        BY <3>1, ElementOfSeq
      <3>3. QED BY <3>1, <3>2, TotalIs DEF Taken
    <2>7. Len(d) = Taken - at
      BY <2>5, <2>6, BytesAre
    <2>8. /\ h \in 0 .. Len(Sizes) /\ bytesRead \in Nat
          /\ \A k \in DOMAIN parts : /\ k \in SeqNo /\ parts[k] \in Seq(1 .. Total)
                                     /\ \E i \in 1 .. high : k = Seq16(i)
          /\ BytesToRead(h) = 0 => /\ bytesRead = 0 /\ \A k \in DOMAIN parts : parts[k] = <<>>
                                   /\ \E I : GivenBy(I, parts, high)
          /\ BytesToRead(h) # 0 => bytesRead < BytesToRead(h) /\ at = HeaderEnd(h) + bytesRead
      BY <2>5 DEF Reading
    <2>9. CASE ParseHeader
      <3>1. PICK m \in FirstPart(d) :
              IF Len(d) < Header
              THEN leftover' = d /\ data' = <<>> /\ UNCHANGED <<header, bytesRead, parts, out>>
              ELSE Consume(m, 0, SubSeq(d, Header + 1, Len(d)))
        BY <2>3, <2>9 DEF ParseHeader
      <3>2. m \in Ids /\ at = End[m - 1] /\ m \in 1 .. Len(Sizes)
        BY <2>5, <2>6, <3>1, FirstPartIs DEF Ids
      <3>3. BytesToRead(h) = 0
        <4>. SUFFICES ASSUME BytesToRead(h) # 0 PROVE FALSE
          OBVIOUS
        <4>1. h \in 1 .. Len(Sizes) /\ bytesRead < Sizes[h]
          BY <2>8, Constants DEF BytesToRead
        <4>2. QED BY <2>8, <3>2, <4>1, NoHeaderInside
      <3>4. bytesRead = 0 /\ (\A k \in DOMAIN parts : parts[k] = <<>>) /\ \E I : GivenBy(I, parts, high)
        BY <2>8, <3>3
      <3>5. CASE Len(d) < Header
        <4>1. leftover' = d /\ data' = <<>> /\ UNCHANGED <<header, bytesRead, parts, out>>
          BY <3>1, <3>5
        <4>2. d \o <<>> = d /\ <<>> \in Seq(1 .. Total) /\ Len(d) \in Nat
          OBVIOUS
        <4>3. leftover' \o data' = Bytes(at + 1, Taken)
          BY <2>5, <4>1, <4>2
        <4>4. /\ Reading(header', bytesRead', parts', at) /\ HandedOn(out', at)
              /\ first = 1 => Complete(out', header', at)
          BY <2>4, <2>5, <4>1
        <4>5. Len(leftover') <= Header /\ BytesToRead(header') = 0
          BY <2>4, <3>3, <3>5, <4>1, <4>2, Constants
        <4>6. QED BY <1>2, <1>3, <2>1, <2>5, <4>1, <4>2, <4>3, <4>4, <4>5, TurnKeeps
      <3>6. CASE ~(Len(d) < Header)
        <4>. DEFINE now == at + Header
                    e == SubSeq(d, Header + 1, Len(d))
        <4>1. Consume(m, bytesRead, e)
          BY <3>1, <3>4, <3>6
        <4>2. now \in Nat /\ now <= Taken
          BY <2>5, <2>6, <2>7, <3>6, Constants
        <4>3. e = Bytes(now + 1, Taken)
          <5>1. at + Header <= Taken /\ Header \in Nat
            BY <4>2, Constants
          <5>2. SubSeq(Bytes(at + 1, Taken), Header + 1, Taken - at) = Bytes(at + Header + 1, Taken)
            BY <2>5, <2>6, <5>1, BytesSub
          <5>3. QED BY <2>5, <2>7, <5>2
        <4>4. now = HeaderEnd(m) /\ End[m] = now + Sizes[m] /\ Sizes[m] \in Nat /\ BytesToRead(m) = Sizes[m]
          <5>1. m # 0 /\ Sizes[m] \in Nat
            BY <3>2, Constants
          <5>2. QED BY <3>2, <5>1, PayloadIs DEF BytesToRead
        <4>. HIDE DEF now, e
        <4>5. Reading(m, bytesRead, parts, now)
          <5>1. m \in 0 .. Len(Sizes)
            BY <3>2, Constants
          <5>2. Pieces(parts, high, HeaderEnd(m), 0)
            <6>1. PICK I : GivenBy(I, parts, high)
              BY <3>4
            <6>2. HeaderEnd(m) \in Nat
              BY <4>2, <4>4
            <6>3. QED BY <1>3, <3>4, <6>1, <6>2, EmptyPieces
          <5>3. BytesToRead(m) # 0 => 0 < BytesToRead(m)
            BY <4>4
          <5>4. now = HeaderEnd(m) + 0
            BY <4>2, <4>4
          <5>5. BytesToRead(m) \in Nat
            BY <4>4
          <5>6. QED BY <2>8, <3>4, <5>1, <5>2, <5>3, <5>4, <5>5 DEF Reading
        <4>6. HandedOn(out, now)
          <5>1. at <= now
            BY <2>5, Constants DEF now
          <5>2. QED BY <2>5, <4>2, <5>1, HandedOnLater
        <4>7. first = 1 => Complete(out, m, now)
          <5>. SUFFICES ASSUME first = 1 PROVE Complete(out, m, now)
            OBVIOUS
          <5>1. ASSUME NEW k \in Ids, Sizes[k] > 0, End[k] <= now
                PROVE  End[k] <= at
            <6>1. /\ k \in 0 .. Len(Sizes) /\ m \in 0 .. Len(Sizes) /\ k \in Nat /\ m \in Nat
                  /\ End[k] \in Nat /\ End[m] \in Nat
              <7>1. k \in 0 .. Len(Sizes) /\ m \in 0 .. Len(Sizes) /\ k \in Nat /\ m \in Nat
                BY <3>2, Constants DEF Ids
              <7>2. QED BY <7>1, Ends
            <6>2. End[k] <= End[m]
              BY <4>2, <4>4, <5>1, <6>1
            <6>3. k <= m
              BY <6>1, <6>2, EndsOrdered
            <6>4. k # m
              <7>. SUFFICES ASSUME k = m PROVE FALSE
                OBVIOUS
              <7>1. QED BY <4>2, <4>4, <5>1
            <6>5. k < m
              BY <6>1, <6>3, <6>4
            <6>6. QED BY <3>2, <6>1, <6>5, EndsIncrease
          <5>2. BytesToRead(m) = 0 => now = End[m] /\ m \in 0 .. Len(Sizes)
            BY <3>2, <4>2, <4>4, Constants
          <5>3. QED BY <2>5, <5>1, <5>2 DEF Complete
        <4>8. QED BY <1>2, <1>5, <2>1, <4>1, <4>2, <4>3, <4>5, <4>6, <4>7, ConsumeKeeps
      <3>7. QED BY <3>5, <3>6
    <2>10. CASE ParseMore
      <3>1. /\ FirstPart(d) = {}
            /\ IF BytesToRead(h) = bytesRead /\ Len(d) > Header
               THEN data' = <<>> /\ UNCHANGED <<leftover, header, bytesRead, parts, out>>
               ELSE Consume(h, bytesRead, d)
        BY <2>3, <2>4, <2>10 DEF ParseMore
      <3>2. CASE BytesToRead(h) = bytesRead /\ Len(d) > Header
        <4>1. data' = <<>> /\ UNCHANGED <<leftover, header, bytesRead, parts, out>>
          BY <3>1, <3>2
        <4>2. BytesToRead(h) = 0
          <5>. SUFFICES ASSUME BytesToRead(h) # 0 PROVE FALSE
            OBVIOUS
          <5>1. bytesRead < bytesRead
            BY <2>8, <3>2
          <5>2. QED BY <2>8, <5>1
        <4>3. leftover' \o data' = Bytes(Taken + 1, Taken) /\ <<>> \in Seq(1 .. Total) /\ Len(<<>>) = 0
          <5>1. Bytes(Taken + 1, Taken) = <<>>
            BY <2>6 DEF Bytes
          <5>2. QED BY <2>1, <4>1, <5>1
        <4>4. Reading(header', bytesRead', parts', Taken)
          <5>1. BytesToRead(header') = 0 /\ header' = h /\ bytesRead' = bytesRead /\ parts' = parts
            BY <2>4, <4>1, <4>2
          <5>2. bytesRead = 0 /\ (\A k \in DOMAIN parts : parts[k] = <<>>) /\ \E I : GivenBy(I, parts, high)
            BY <2>8, <4>2
          <5>3. QED BY <2>8, <5>1, <5>2 DEF Reading
        <4>5. HandedOn(out', Taken)
          BY <2>5, <2>6, <4>1, HandedOnLater
        <4>6. first # 1
          <5>. SUFFICES ASSUME first = 1 PROVE FALSE
            OBVIOUS
          <5>1. PICK k \in 0 .. Len(Sizes) : at = End[k]
            BY <2>5, <4>2 DEF Complete
          <5>2. Taken - at > Header /\ Header >= Magic /\ Header \in Nat /\ Magic \in Nat
            BY <2>7, <3>2, Constants
          <5>3. CASE k = Len(Sizes)
            <6>1. at = Total
              BY <5>1, <5>3 DEF Total
            <6>2. QED BY <2>5, <2>6, <5>2, <6>1, TotalIs
          <5>4. CASE k # Len(Sizes)
            <6>1. k + 1 \in Ids /\ (k + 1) - 1 = k
              BY <5>4, Constants DEF Ids
            <6>2. Taken - at >= Magic
              BY <2>5, <2>6, <5>2
            <6>3. at = End[(k + 1) - 1]
              BY <5>1, <6>1
            <6>4. k + 1 \in FirstPart(d)
              BY <2>5, <2>6, <6>1, <6>2, <6>3, FirstPartIs
            <6>5. QED BY <3>1, <6>4
          <5>5. QED BY <5>3, <5>4
        <4>7. /\ leftover' \in Seq(1 .. Total) /\ data' \in Seq(1 .. Total)
              /\ leftover' = <<>> /\ Len(leftover') <= Header
          BY <2>1, <4>1, <4>3, Constants
        <4>8. BytesToRead(header') = 0 /\ data' = <<>>
          BY <2>4, <4>1, <4>2
        <4>9. QED BY <1>2, <1>3, <2>1, <2>6, <4>3, <4>4, <4>5, <4>6, <4>7, <4>8, TurnKeeps
      <3>3. CASE ~(BytesToRead(h) = bytesRead /\ Len(d) > Header)
        <4>1. Consume(h, bytesRead, d)
          BY <3>1, <3>3
        <4>2. QED BY <1>2, <1>5, <2>1, <2>5, <4>1, ConsumeKeeps
      <3>4. QED BY <3>2, <3>3
    <2>11. QED BY <2>1, <2>9, <2>10
  <1>6. QED BY <1>4, <1>5

LEMMA ChannelNext ==
    ASSUME ChannelInv, [Next]_vars, TakenInOrder, PartsCompare
    PROVE  ChannelInv'
  <1>1. PacketsInv' /\ (pc # "parse" => data = <<>>)
    BY PacketsStep DEF ChannelInv, BuffersInv
  <1>2. CASE Send
    BY <1>1, <1>2, SendKeeps
  <1>3. ASSUME NEW i \in Packets, Deliver(i)
        PROVE  ChannelInv'
    BY <1>1, <1>3, DeliverKeeps
  <1>4. CASE NextQueued
    BY <1>1, <1>4, NextQueuedKeeps
  <1>5. CASE Parse
    BY <1>1, <1>5, ParseKeeps
  <1>6. CASE UNCHANGED vars
    <2>1. UNCHANGED <<builder, ends, initialized, first, high>> /\ (pc' # "parse" => data = <<>>)
      BY <1>1, <1>6 DEF vars, station, order
    <2>2. QED BY <1>1, <2>1, ReaderRests
  <1>7. QED BY <1>2, <1>3, <1>4, <1>5, <1>6 DEF Next

-----------------------------------------------------------------------------
(* What is taken from the network and from the queue.                      *)

\* What is queued has not been processed, and is not so far ahead that its number
\* could be taken for another's. Before a packet is waited for the one that is
\* expected has been looked for.
QueueAhead ==
    /\ ~initialized => DOMAIN queue = {}
    /\ \A k \in DOMAIN queue : /\ queue[k] - (high + 1) \in 0 .. Half
                               /\ pc = "wait" => queue[k] # high + 1

LEMMA QueueInit == Init => QueueAhead
  BY DEF Init, QueueAhead, NoParts

\* The packet that bears the number that is expected, and is so near, is the next.
LEMMA ExpectedIsNext ==
    ASSUME PacketsInv, initialized, NEW i \in 1 .. sent, i - (high + 1) \in -Half .. Half,
           Seq16(i) = expected
    PROVE  i = high + 1
  <1>1. high \in Nat /\ expected = Seq16(high + 1) /\ i \in Nat \ {0} /\ high + 1 \in Nat \ {0}
    BY DEF PacketsInv
  <1>2. i - (high + 1) < Modulus /\ (high + 1) - i < Modulus
    BY <1>1, HalfOfRing
  <1>3. QED BY <1>1, <1>2, NumbersDiffer

LEMMA QueueStep ==
    ASSUME PacketsInv, QueueAhead, InTime, [Next]_vars
    PROVE  QueueAhead' /\ TakenInOrder
  <1>1. /\ high \in Nat /\ Half \in Nat /\ sent \in Nat
        /\ \A k \in DOMAIN queue : /\ queue[k] \in Nat \ {0} /\ queue[k] \in 1 .. sent /\ Seq16(queue[k]) = k
                                   /\ queue[k] - (high + 1) \in 0 .. Half
                                   /\ pc = "wait" => queue[k] # high + 1
    BY HalfOfRing DEF PacketsInv, QueueAhead
  <1>2. CASE UNCHANGED <<initialized, queue, high>> /\ (pc' = "wait" => pc = "wait")
    BY <1>1, <1>2 DEF QueueAhead, TakenInOrder
  <1>3. ASSUME NEW i \in Packets, Deliver(i)
        PROVE  QueueAhead' /\ TakenInOrder
    <2>1. pc = "wait" /\ i \in 1 .. sent /\ Accept(i) /\ i \in Nat \ {0}
      BY <1>1, <1>3 DEF Deliver
    <2>2. CASE ~initialized
      <3>1. StartParse(i) /\ UNCHANGED queue /\ DOMAIN queue = {}
        BY <2>1, <2>2 DEF Accept, QueueAhead
      <3>2. initialized'
        BY <3>1 DEF StartParse
      <3>3. QED BY <2>2, <3>1, <3>2 DEF QueueAhead, TakenInOrder
    <2>3. CASE initialized /\ Seq16(i) = expected
      <3>1. StartParse(i) /\ UNCHANGED queue
        BY <2>1, <2>3 DEF Accept
      <3>2. initialized' /\ high' = i /\ pc' = "parse"
        BY <3>1 DEF StartParse
      <3>3. i = high + 1
        <4>1. i - (high + 1) \in -Half .. Half
          BY <1>3, <2>3 DEF InTime
        <4>2. QED BY <2>1, <2>3, <4>1, ExpectedIsNext
      <3>4. \A k \in DOMAIN queue : queue[k] - (i + 1) \in 0 .. Half
        BY <1>1, <2>1, <3>3
      <3>5. QED BY <3>1, <3>2, <3>3, <3>4 DEF QueueAhead, TakenInOrder
    <2>4. CASE initialized /\ Seq16(i) # expected
      <3>1. /\ queue' = [k \in {k \in DOMAIN QueuedWith(i) : ~IsSeqBefore(k, expected)} |-> QueuedWith(i)[k]]
            /\ UNCHANGED <<pc, initialized, high>>
        BY <2>1, <2>4 DEF Accept, QueuedWith
      <3>2. /\ i - (high + 1) \in -Half .. Half /\ ~(Seq16(i) = MaxSequenceNumber /\ expected = 0)
            /\ expected = Seq16(high + 1) /\ high + 1 \in Nat \ {0}
        BY <1>1, <1>3, <2>4 DEF InTime, PacketsInv
      <3>3. i # high + 1
        BY <2>4, <3>2
      <3>4. i < high + 1 => IsSeqBefore(Seq16(i), expected)
        <4>1. (high + 1) - i <= Half
          BY <1>1, <2>1, <3>2
        <4>2. QED BY <2>1, <3>2, <4>1, LateIsBefore
      <3>5. ASSUME NEW k \in DOMAIN queue'
            PROVE  queue'[k] - (high + 1) \in 0 .. Half /\ queue'[k] # high + 1
        <4>1. k \in DOMAIN queue \cup {Seq16(i)} /\ queue'[k] = QueuedWith(i)[k] /\ ~IsSeqBefore(k, expected)
          BY <3>1, <3>5, QueuedIs
        <4>2. CASE k = Seq16(i)
          <5>1. queue'[k] = i
            BY <4>1, <4>2, QueuedIs
          <5>2. ~(i < high + 1)
            BY <3>4, <4>1, <4>2
          <5>3. QED BY <1>1, <2>1, <3>2, <3>3, <5>1, <5>2
        <4>3. CASE k # Seq16(i)
          <5>1. k \in DOMAIN queue /\ queue'[k] = queue[k]
            BY <4>1, <4>3, QueuedIs
          <5>2. QED BY <1>1, <2>1, <5>1
        <4>4. QED BY <4>2, <4>3
      <3>6. QED BY <2>4, <3>1, <3>5 DEF QueueAhead, TakenInOrder
    <2>5. QED BY <2>2, <2>3, <2>4
  <1>4. CASE NextQueued
    <2>1. pc = "next" /\ initialized
      BY <1>4 DEF NextQueued, PacketsInv
    <2>2. CASE expected \in DOMAIN queue
      <3>1. PICK i \in 1 .. sent : i = queue[expected]
        BY <1>1, <2>2
      <3>2. /\ initialized' /\ high' = i /\ pc' = "parse"
            /\ queue' = [k \in DOMAIN queue \ {expected} |-> queue[k]]
        BY <1>4, <2>2, <3>1 DEF NextQueued, StartParse
      <3>3. i - (high + 1) \in -Half .. Half /\ Seq16(i) = expected
        BY <1>1, <2>2, <3>1
      <3>4. i = high + 1
        BY <2>1, <3>3, ExpectedIsNext
      <3>5. ASSUME NEW k \in DOMAIN queue \ {expected}
            PROVE  queue[k] - (i + 1) \in 0 .. Half
        <4>1. queue[k] # high + 1
          BY <1>1, <3>3, <3>4, <3>5
        <4>2. QED BY <1>1, <3>4, <3>5, <4>1
      <3>6. QED BY <3>2, <3>4, <3>5 DEF QueueAhead, TakenInOrder
    <2>3. CASE expected \notin DOMAIN queue
      <3>1. pc' = "wait" /\ UNCHANGED <<initialized, queue, high>>
        BY <1>4, <2>3 DEF NextQueued, order
      <3>2. expected = Seq16(high + 1)
        BY <2>1 DEF PacketsInv
      <3>3. \A k \in DOMAIN queue : queue[k] # high + 1
        BY <1>1, <2>3, <3>2
      <3>4. QED BY <1>1, <2>1, <3>1, <3>3 DEF QueueAhead, TakenInOrder
    <2>4. QED BY <2>2, <2>3
  <1>5. CASE Send
    BY <1>2, <1>5 DEF Send, order
  <1>6. CASE Parse
    <2>1. pc' # "wait"
      BY <1>6 DEF Parse
    <2>2. QED BY <1>2, <1>6, <2>1 DEF Parse, order
  <1>7. CASE UNCHANGED vars
    BY <1>2, <1>7 DEF vars, order
  <1>8. QED BY <1>3, <1>4, <1>5, <1>6, <1>7 DEF Next

\* In a stream of few packets every step is taken as the general theorems ask.
LEMMA FewPacketsStep ==
    ASSUME FewPackets, ChannelInv, [Next]_vars
    PROVE  TakenInOrder /\ PartsCompare
  <1>1. PacketsInv /\ PacketsInv'
    BY PacketsStep DEF ChannelInv
  <1>2. /\ sent \in Nat /\ sent <= MaxPackets /\ MaxPackets < Modulus /\ high \in Nat /\ high <= sent
        /\ sent' \in Nat /\ sent' <= MaxPackets /\ high' \in Nat /\ high' <= sent'
    BY <1>1, Constants DEF PacketsInv, FewPackets
  <1>3. ASSUME NEW i \in 1 .. sent, initialized, Seq16(i) = expected
        PROVE  i = high + 1
    <2>1. /\ i \in Nat \ {0} /\ high + 1 \in Nat \ {0} /\ Seq16(i) = Seq16(high + 1)
          /\ i - (high + 1) < Modulus /\ (high + 1) - i < Modulus
      BY <1>1, <1>2, <1>3, Constants DEF PacketsInv
    <2>2. QED BY <2>1, NumbersDiffer
  <1>4. TakenInOrder
    <2>. SUFFICES ASSUME initialized, high' # high PROVE high' = high + 1
      BY DEF TakenInOrder
    <2>1. PICK i \in 1 .. sent : high' = i /\ Seq16(i) = expected
      <3>1. ASSUME NEW j \in Packets, Deliver(j)
            PROVE  j \in 1 .. sent /\ high' = j /\ Seq16(j) = expected
        BY <3>1 DEF Deliver, Accept, StartParse
      <3>2. CASE NextQueued
        <4>1. expected \in DOMAIN queue
          BY <3>2 DEF NextQueued, order
        <4>2. StartParse(queue[expected]) /\ queue[expected] \in 1 .. sent /\ Seq16(queue[expected]) = expected
          BY <1>1, <3>2, <4>1 DEF NextQueued, PacketsInv
        <4>3. QED BY <4>2 DEF StartParse
      <3>3. ~Send /\ ~Parse /\ ~UNCHANGED vars
        BY DEF Send, Parse, vars, order
      <3>4. QED BY <3>1, <3>2, <3>3 DEF Next
    <2>2. QED BY <1>3, <2>1
  <1>5. PartsCompare
    <2>. SUFFICES ASSUME high' # high, NEW k \in DOMAIN parts PROVE PartBefore(k, seqNo')
      BY DEF PartsCompare
    <2>1. PICK j \in 1 .. high : k = Seq16(j)
      BY DEF ChannelInv, Stands, Reading
    <2>2. initialized
      BY <1>1, <2>1 DEF PacketsInv
    <2>3. high' = high + 1
      BY <1>4, <2>2 DEF TakenInOrder
    <2>4. seqNo' = Seq16(high')
      BY <1>1, <1>2, <2>3 DEF PacketsInv
    <2>5. j \in 1 .. MaxPackets /\ high' \in 1 .. MaxPackets /\ j < high'
      BY <1>2, <2>3, Constants
    <2>6. QED BY <2>1, <2>4, <2>5, PartOrder
  <1>6. QED BY <1>4, <1>5

LEMMA ChannelInvariant ==
    ASSUME FewPackets
    PROVE  Spec => []ChannelInv
  <1>1. Init => ChannelInv
    BY ChannelInit
  <1>2. ChannelInv /\ [Next]_vars => ChannelInv'
    BY ChannelNext, FewPacketsStep
  <1>3. QED BY <1>1, <1>2, PTL DEF Spec

\* A step on any number of turns of the ring.
LEMMA RingInvariant == Spec /\ [][InTime /\ PartsCompare]_vars => [](ChannelInv /\ QueueAhead)
  <1>1. Init => ChannelInv /\ QueueAhead
    BY ChannelInit, QueueInit
  <1>2. ChannelInv /\ QueueAhead /\ [Next]_vars /\ [InTime /\ PartsCompare]_vars
          => (ChannelInv /\ QueueAhead)'
    <2>. SUFFICES ASSUME ChannelInv, QueueAhead, [Next]_vars, [InTime /\ PartsCompare]_vars
                  PROVE  ChannelInv' /\ QueueAhead'
      OBVIOUS
    <2>1. CASE InTime /\ PartsCompare
      <3>1. PacketsInv
        BY DEF ChannelInv
      <3>2. QED BY <2>1, <3>1, ChannelNext, QueueStep
    <2>2. CASE UNCHANGED vars
      <3>1. TakenInOrder /\ PartsCompare
        BY <2>2 DEF TakenInOrder, PartsCompare, vars, order
      <3>2. QueueAhead'
        BY <2>2 DEF QueueAhead, vars, order
      <3>3. QED BY <3>1, <3>2, ChannelNext
    <2>3. QED BY <2>1, <2>2
  <1>3. QED BY <1>1, <1>2, PTL DEF Spec

-----------------------------------------------------------------------------
(* The theorems.                                                           *)

\* On any number of turns of the ring, packets that come in time are parsed one
\* after the other as the station sent them, whichever comes from the network and
\* whichever out of queuedData, and none twice.
THEOREM PacketsTakenInOrder ==
    Spec /\ [][InTime]_vars => [][TakenInOrder]_vars
  <1>1. Init => PacketsInv /\ QueueAhead
    BY ChannelInit, QueueInit DEF ChannelInv
  <1>2. PacketsInv /\ QueueAhead /\ [Next]_vars /\ [InTime]_vars
          => (PacketsInv /\ QueueAhead)' /\ [TakenInOrder]_vars
    <2>. SUFFICES ASSUME PacketsInv, QueueAhead, [Next]_vars, [InTime]_vars
                  PROVE  PacketsInv' /\ QueueAhead' /\ [TakenInOrder]_vars
      OBVIOUS
    <2>1. CASE InTime
      BY <2>1, PacketsStep, QueueStep
    <2>2. CASE UNCHANGED vars
      <3>1. QueueAhead'
        BY <2>2 DEF QueueAhead, vars, order
      <3>2. QED BY <2>2, <3>1, PacketsStep
    <2>3. QED BY <2>1, <2>2
  <1>3. QED BY <1>1, <1>2, PTL DEF Spec

\* What readLoop keeps of a command channel, the queue, what is left over, the
\* parts of the message being read, has its type; in particular never more bytes
\* of a message are counted than its header announced.
THEOREM TypeCorrectOnRing ==
    Spec /\ [][InTime /\ PartsCompare]_vars => []TypeOK
  <1>1. ChannelInv => TypeOK
    BY ChannelSays
  <1>2. QED BY <1>1, RingInvariant, PTL

\* However the station cuts its stream into packets and however often the numbers
\* of these start again: handleCompleteData gets whole messages of the station,
\* each with its own bytes, in order and once.
THEOREM MessagesAreWholeOnRing ==
    Spec /\ [][InTime /\ PartsCompare]_vars => []MessagesWhole
  <1>1. ChannelInv => MessagesWhole
    BY ChannelSays
  <1>2. QED BY <1>1, RingInvariant, PTL

\* A client that heard the channel from its first packet has, whenever it waits
\* for a packet, handed on every message with a payload that ends in the packets
\* it has taken: parseDataMessage keeps none back and forgets none.
THEOREM NothingIsLostOnRing ==
    Spec /\ [][InTime /\ PartsCompare]_vars => []NothingLost
  <1>1. ChannelInv => NothingLost
    BY ChannelSays
  <1>2. QED BY <1>1, RingInvariant, PTL

-----------------------------------------------------------------------------
(* A stream of few packets: however late they come.                        *)

\* Its packets are taken in order and their parts compare, so that the hypotheses
\* on its steps can be dropped.
THEOREM FewPacketsSuffice ==
    ASSUME FewPackets
    PROVE  Spec => [][TakenInOrder /\ PartsCompare]_vars
  <1>1. ChannelInv /\ [Next]_vars => [TakenInOrder /\ PartsCompare]_vars
    BY FewPacketsStep
  <1>2. QED BY <1>1, ChannelInvariant, PTL DEF Spec

\* As TypeCorrectOnRing.
THEOREM TypeCorrect ==
    ASSUME FewPackets
    PROVE  Spec => []TypeOK
  <1>1. ChannelInv => TypeOK
    BY ChannelSays
  <1>2. QED BY <1>1, ChannelInvariant, PTL

\* As MessagesAreWholeOnRing, in whatever order, how often and how late the
\* packets come.
THEOREM MessagesAreWhole ==
    ASSUME FewPackets
    PROVE  Spec => []MessagesWhole
  <1>1. ChannelInv => MessagesWhole
    BY ChannelSays
  <1>2. QED BY <1>1, ChannelInvariant, PTL

\* As NothingIsLostOnRing, however late the packets come.
THEOREM NothingIsLost ==
    ASSUME FewPackets
    PROVE  Spec => []NothingLost
  <1>1. ChannelInv => NothingLost
    BY ChannelSays
  <1>2. QED BY <1>1, ChannelInvariant, PTL
=============================================================================
