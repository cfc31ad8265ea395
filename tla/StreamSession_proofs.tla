------------------------- MODULE StreamSession_proofs -------------------------
(***************************************************************************)
(* A stream session and its consumer, for every limit of the buffer, every *)
(* input a camera can send and any number of restarts and replacements.    *)
(*                                                                         *)
(* The session: its buffer stays a window of consecutive frames with the   *)
(* right last keyframe (BufferConsistent), and the timestamps in it        *)
(* increase (PTSIncreasing).  The consumer: its timestamps increase        *)
(* (TimelineIncreasing), and, as long as no closed client delivers         *)
(* anything, it can decode what it gets (Decodable).  The restart: a       *)
(* camera that is still waking is left alone (WakingKept).                 *)
(***************************************************************************)
EXTENDS StreamSession, FiniteSetTheorems, SequenceTheorems, NaturalsInduction,
        WellFoundedInduction, TLAPS

\* What the two invariants need to know of the types.
SessionType ==
    /\ buffer \in Seq(Frame)
    /\ nextFrameID \in Nat
    /\ hasPTS \in BOOLEAN
    /\ lastRawPTS \in Int
    /\ lastPTS \in Int
    /\ ptsOffset \in Int

CameraType == epoch \in Nat /\ late \in Nat

FramesInv == SessionType /\ BufferConsistent /\ PTSIncreasing

\* The inductive invariant: the encoder sessions are numbered, as a frame's type
\* says, and the buffer is as it should be.
SessionInv == CameraType /\ FramesInv

IsSuffix(t, b) == \E d \in 0 .. Len(b) : t = SubSeq(b, d + 1, Len(b))

-----------------------------------------------------------------------------
(* The buffer's helpers.                                                   *)

\* The elements of a suffix.
LEMMA SuffixElements ==
    ASSUME NEW b \in Seq(Frame), NEW d \in 0 .. Len(b)
    PROVE  /\ SubSeq(b, d + 1, Len(b)) \in Seq(Frame)
           /\ Len(SubSeq(b, d + 1, Len(b))) = Len(b) - d
           /\ \A i \in 1 .. Len(b) - d : SubSeq(b, d + 1, Len(b))[i] = b[i + d]
  <1>1. Len(b) \in Nat
    BY LenProperties
  <1>2. \A i \in d + 1 .. Len(b) : b[i] \in Frame
    BY <1>1, ElementOfSeq
  <1>. QED
    BY <1>1, <1>2, SubSeqProperties

\* FitBytes keeps a suffix of the buffer.
LEMMA FitBytesSuffix ==
    ASSUME NEW b \in Seq(Frame)
    PROVE  IsSuffix(FitBytes(b), b)
  <1>. DEFINE D == TooLong(b)
  <1>1. Len(b) \in Nat
    BY LenProperties
  <1>2. IsFiniteSet(1 .. Len(b)) /\ Cardinality(1 .. Len(b)) = Len(b)
    BY <1>1, FS_Interval
  <1>3. D \subseteq 1 .. Len(b)
    BY DEF TooLong
  <1>4. Cardinality(D) \in 0 .. Len(b)
    <2>. HIDE DEF D
    <2>1. IsFiniteSet(D) /\ Cardinality(D) <= Cardinality(1 .. Len(b))
      BY <1>2, <1>3, FS_Subset
    <2>2. Cardinality(D) \in Nat
      BY <2>1, FS_CardinalityType
    <2>. QED
      BY <1>1, <1>2, <2>1, <2>2
  <1>5. FitBytes(b) = SubSeq(b, Cardinality(D) + 1, Len(b))
    BY DEF FitBytes
  <1>. HIDE DEF D
  <1>. QED
    BY <1>4, <1>5 DEF IsSuffix

\* FitCount keeps a suffix of at most maxFrames frames.
LEMMA FitCountSuffix ==
    ASSUME NEW b \in Seq(Frame)
    PROVE  IsSuffix(FitCount(b), b) /\ Len(FitCount(b)) <= maxFrames
  <1>1. Len(b) \in Nat /\ maxFrames \in Nat
    BY SessionAssumption, LenProperties DEF SessionAssumption
  <1>2. CASE Len(b) > maxFrames
    <2>1. Len(b) - maxFrames \in 0 .. Len(b)
      BY <1>1, <1>2
    <2>2. FitCount(b) = SubSeq(b, (Len(b) - maxFrames) + 1, Len(b))
      BY <1>2 DEF FitCount
    <2>3. IsSuffix(FitCount(b), b)
      BY <2>1, <2>2 DEF IsSuffix
    <2>4. Len(FitCount(b)) = Len(b) - (Len(b) - maxFrames)
      BY <2>1, <2>2, SuffixElements
    <2>. QED
      BY <1>1, <2>3, <2>4
  <1>3. CASE ~(Len(b) > maxFrames)
    <2>1. FitCount(b) = b
      BY <1>3 DEF FitCount
    <2>2. SubSeq(b, 0 + 1, Len(b)) = b
      BY SubSeqFull
    <2>. QED
      BY <1>1, <1>3, <2>1, <2>2 DEF IsSuffix
  <1>. QED
    BY <1>2, <1>3

\* A trim that recomputes the keyframe position leaves it right.
LEMMA KeyAfterSuffix ==
    ASSUME NEW b \in Seq(Frame), NEW t, IsSuffix(t, b)
    PROVE  KeyAfterTrim(LastKeyOf(b), b, t) = LastKeyOf(t)
  <1>1. PICK d \in 0 .. Len(b) : t = SubSeq(b, d + 1, Len(b))
    BY DEF IsSuffix
  <1>2. Len(b) \in Nat /\ Len(t) = Len(b) - d
    BY <1>1, SuffixElements, LenProperties
  <1>3. CASE d = 0
    <2>1. t = b
      BY <1>1, <1>3, SubSeqFull
    <2>. QED
      BY <1>2, <1>3, <2>1 DEF KeyAfterTrim
  <1>4. CASE d # 0
    <2>1. Len(t) < Len(b)
      BY <1>2, <1>4
    <2>. QED
      BY <2>1 DEF KeyAfterTrim
  <1>. QED
    BY <1>3, <1>4

\* The last keyframe of a buffer with one more frame.
LEMMA KeyAfterAppend ==
    ASSUME NEW b \in Seq(Frame), NEW f \in Frame
    PROVE  LastKeyOf(Append(b, f)) = IF f.key THEN Len(b) + 1 ELSE LastKeyOf(b)
  <1>. DEFINE c == Append(b, f)
              keys(s) == {i \in 1 .. Len(s) : s[i].key}
  <1>1. /\ Len(b) \in Nat
        /\ Len(c) = Len(b) + 1
        /\ \A i \in 1 .. Len(b) : c[i] = b[i]
        /\ c[Len(b) + 1] = f
    BY AppendProperties, LenProperties
  <1>2. CASE f.key
    <2>1. Len(b) + 1 \in keys(c) /\ \A j \in keys(c) : j <= Len(b) + 1
      BY <1>1, <1>2
    <2>2. \A i \in keys(c) : (\A j \in keys(c) : j <= i) => i = Len(b) + 1
      BY <1>1, <2>1
    <2>3. (CHOOSE i \in keys(c) : \A j \in keys(c) : j <= i) = Len(b) + 1
      <3>. HIDE DEF keys, c
      <3>. QED
        BY <2>1, <2>2
    <2>. QED
      BY <1>2, <2>1, <2>3 DEF LastKeyOf
  <1>3. CASE ~f.key
    <2>1. keys(c) = keys(b)
      BY <1>1, <1>3
    <2>2. /\ LastKeyOf(c) = IF keys(c) = {} THEN 0 ELSE CHOOSE i \in keys(c) : \A j \in keys(c) : j <= i
          /\ LastKeyOf(b) = IF keys(b) = {} THEN 0 ELSE CHOOSE i \in keys(b) : \A j \in keys(b) : j <= i
      BY DEF LastKeyOf
    <2>3. LastKeyOf(c) = LastKeyOf(b)
      <3>. HIDE DEF keys, c
      <3>. QED
        BY <2>1, <2>2
    <2>. QED
      BY <1>3, <2>3
  <1>. QED
    BY <1>2, <1>3

-----------------------------------------------------------------------------
(* What a buffer must be: numbered up to n, timestamps up to last.         *)

Numbered(b, n) == \A i \in 1 .. Len(b) : b[i].id = n - Len(b) + i

Ascending(b, last) ==
    \A i \in 1 .. Len(b) : /\ b[i].pts <= last
                           /\ \A j \in 1 .. i - 1 : b[j].pts < b[i].pts

\* A suffix of such a buffer is one.
LEMMA SuffixKeeps ==
    ASSUME NEW b \in Seq(Frame), NEW t, IsSuffix(t, b), NEW n \in Nat, NEW last \in Int,
           Numbered(b, n), Ascending(b, last)
    PROVE  t \in Seq(Frame) /\ Numbered(t, n) /\ Ascending(t, last)
  <1>1. PICK d \in 0 .. Len(b) : t = SubSeq(b, d + 1, Len(b))
    BY DEF IsSuffix
  <1>2. /\ Len(b) \in Nat
        /\ t \in Seq(Frame)
        /\ Len(t) = Len(b) - d
        /\ \A i \in 1 .. Len(t) : t[i] = b[i + d]
    BY <1>1, SuffixElements, LenProperties
  <1>3. \A i \in 1 .. Len(t) : i + d \in 1 .. Len(b)
    BY <1>2
  <1>4. ASSUME NEW i \in 1 .. Len(t)
        PROVE  t[i].id = n - Len(t) + i
    <2>1. b[i + d].id = n - Len(b) + (i + d)
      BY <1>3 DEF Numbered
    <2>. QED
      BY <1>2, <2>1
  <1>5. ASSUME NEW i \in 1 .. Len(t)
        PROVE  /\ t[i].pts <= last
               /\ \A j \in 1 .. i - 1 : t[j].pts < t[i].pts
    <2>1. b[i + d].pts <= last /\ \A j \in 1 .. (i + d) - 1 : b[j].pts < b[i + d].pts
      BY <1>3 DEF Ascending
    <2>2. \A j \in 1 .. i - 1 : j + d \in 1 .. (i + d) - 1 /\ j \in 1 .. Len(t)
      BY <1>2
    <2>. QED
      BY <1>2, <2>1, <2>2
  <1>. QED
    BY <1>2, <1>4, <1>5 DEF Numbered, Ascending

\* One more frame with the next number and a later timestamp keeps it one.
LEMMA AppendKeeps ==
    ASSUME NEW b \in Seq(Frame), NEW f \in Frame, NEW n \in Nat, NEW last \in Int,
           Numbered(b, n), Ascending(b, last), f.id = n + 1, last < f.pts
    PROVE  /\ Append(b, f) \in Seq(Frame)
           /\ Numbered(Append(b, f), n + 1)
           /\ Ascending(Append(b, f), f.pts)
  <1>. DEFINE c == Append(b, f)
  <1>1. /\ Len(b) \in Nat
        /\ c \in Seq(Frame)
        /\ Len(c) = Len(b) + 1
        /\ \A i \in 1 .. Len(b) : c[i] = b[i]
        /\ c[Len(b) + 1] = f
    BY AppendProperties, LenProperties
  <1>2. ASSUME NEW i \in 1 .. Len(b)
        PROVE  b[i].pts \in Int /\ b[i].pts <= last
    <2>1. b[i] \in Frame
      BY ElementOfSeq
    <2>. QED
      BY <2>1 DEF Ascending, Frame
  <1>3. ASSUME NEW i \in 1 .. Len(c)
        PROVE  c[i].id = n + 1 - Len(c) + i
    <2>. HIDE DEF c
    <2>1. CASE i = Len(b) + 1
      BY <1>1, <2>1
    <2>2. CASE i \in 1 .. Len(b)
      <3>1. b[i].id = n - Len(b) + i
        BY <2>2 DEF Numbered
      <3>. QED
        BY <1>1, <2>2, <3>1
    <2>. QED
      BY <1>1, <2>1, <2>2
  <1>4. f.pts \in Int
    BY DEF Frame
  <1>5. ASSUME NEW i \in 1 .. Len(c)
        PROVE  /\ c[i].pts <= f.pts
               /\ \A j \in 1 .. i - 1 : c[j].pts < c[i].pts
    <2>. HIDE DEF c
    <2>1. CASE i = Len(b) + 1
      BY <1>1, <1>2, <1>4, <2>1
    <2>2. CASE i \in 1 .. Len(b)
      <3>1. c[i].pts <= last /\ \A j \in 1 .. i - 1 : b[j].pts < b[i].pts
        BY <1>1, <2>2 DEF Ascending
      <3>2. \A j \in 1 .. i - 1 : c[j] = b[j]
        BY <1>1, <2>2
      <3>. QED
        BY <1>1, <1>2, <1>4, <2>2, <3>1, <3>2
    <2>. QED
      BY <1>1, <2>1, <2>2
  <1>6. Numbered(c, n + 1) /\ Ascending(c, f.pts)
    <2>. HIDE DEF c
    <2>. QED
      BY <1>3, <1>5 DEF Numbered, Ascending
  <1>. QED
    BY <1>1, <1>6

-----------------------------------------------------------------------------
(* The steps.                                                              *)

\* A step that touches neither the buffer nor the clock.
LEMMA UntouchedKeeps ==
    ASSUME FramesInv, UNCHANGED <<frames, timing>>
    PROVE  FramesInv'
  <1>1. UNCHANGED <<buffer, nextFrameID, lastKeyFrameIdx, hasPTS, lastRawPTS, lastPTS, ptsOffset>>
    BY DEF frames, timing
  <1>2. SessionType' /\ PTSIncreasing'
    BY <1>1 DEF FramesInv, SessionType, PTSIncreasing
  <1>3. BufferConsistent'
    BY <1>1 DEF FramesInv, BufferConsistent, LastKeyOf
  <1>. QED
    BY <1>2, <1>3 DEF FramesInv

\* A buffer that was emptied.
LEMMA EmptiedKeeps ==
    ASSUME buffer' = <<>>, lastKeyFrameIdx' = 0, SessionType',
           hasPTS' => lastPTS' = lastRawPTS' + ptsOffset'
    PROVE  FramesInv'
  <1>1. Len(buffer') = 0
    OBVIOUS
  <1>2. PTSIncreasing'
    BY <1>1 DEF PTSIncreasing
  <1>3. LastKeyOf(buffer') = 0
    BY <1>1 DEF LastKeyOf
  <1>4. BufferConsistent'
    BY <1>1, <1>3, SessionAssumption DEF BufferConsistent, SessionAssumption, LastKeyOf
  <1>. QED
    BY <1>2, <1>4 DEF FramesInv

LEMMA EmptySessionKeeps ==
    ASSUME EmptySession
    PROVE  FramesInv'
  <1>1. SessionType'
    <2>1. <<>> \in Seq(Frame)
      BY EmptySeq
    <2>2. /\ buffer' = <<>> /\ nextFrameID' = 0 /\ hasPTS' = FALSE
          /\ lastRawPTS' = 0 /\ lastPTS' = 0 /\ ptsOffset' = 0
      BY DEF EmptySession
    <2>3. buffer' \in Seq(Frame)
      BY <2>1, <2>2
    <2>4. nextFrameID' \in Nat /\ lastRawPTS' \in Int /\ lastPTS' \in Int /\ ptsOffset' \in Int
      BY <2>2
    <2>5. hasPTS' \in BOOLEAN
      BY <2>2
    <2>. QED
      BY <2>3, <2>4, <2>5 DEF SessionType
  <1>. QED
    BY <1>1, EmptiedKeeps DEF EmptySession

\* rebasePTS gives out a later timestamp than the one before, whatever the
\* camera's clock says.
LEMMA RebaseIncreases ==
    ASSUME FramesInv, NEW raw \in Nat, NEW step \in Steps, RebasePTS(raw, step)
    PROVE  /\ hasPTS' = TRUE /\ lastRawPTS' \in Int /\ lastPTS' \in Int /\ ptsOffset' \in Int
           /\ lastPTS' = lastRawPTS' + ptsOffset'
           /\ hasPTS => lastPTS < lastPTS'
  <1>1. step \in Nat /\ step > 0 /\ maxPTSJumpMs \in Nat
    BY SessionAssumption DEF SessionAssumption
  <1>2. /\ hasPTS \in BOOLEAN /\ lastRawPTS \in Int /\ lastPTS \in Int /\ ptsOffset \in Int
        /\ hasPTS => lastPTS = lastRawPTS + ptsOffset
    BY DEF FramesInv, SessionType, PTSIncreasing
  <1>3. hasPTS' = TRUE /\ lastRawPTS' = raw
    BY DEF RebasePTS
  <1>4. CASE ~hasPTS
    BY <1>2, <1>3, <1>4 DEF RebasePTS
  <1>5. CASE hasPTS /\ (raw - lastRawPTS <= 0 \/ raw - lastRawPTS > maxPTSJumpMs)
    <2>1. ptsOffset' = lastPTS + step - raw /\ lastPTS' = raw + ptsOffset'
      BY <1>5 DEF RebasePTS
    <2>. QED
      BY <1>1, <1>2, <1>3, <1>5, <2>1
  <1>6. CASE hasPTS /\ ~(raw - lastRawPTS <= 0 \/ raw - lastRawPTS > maxPTSJumpMs)
    <2>1. ptsOffset' = ptsOffset /\ lastPTS' = raw + ptsOffset'
      BY <1>6 DEF RebasePTS
    <2>. QED
      BY <1>1, <1>2, <1>3, <1>6, <2>1
  <1>. QED
    BY <1>2, <1>4, <1>5, <1>6

\* A frame with the next number and a later timestamp goes into the buffer.
LEMMA StoreKeeps ==
    ASSUME FramesInv, NEW f \in Frame, f.id = nextFrameID + 1, f.pts = lastPTS', Store(f),
           hasPTS' = TRUE, lastRawPTS' \in Int, lastPTS' \in Int, ptsOffset' \in Int,
           lastPTS' = lastRawPTS' + ptsOffset',
           hasPTS => lastPTS < lastPTS'
    PROVE  FramesInv'
  <1>. DEFINE b == Append(buffer, f)
              t == FitBytes(b)
              u == FitCount(t)
  <1>1. buffer \in Seq(Frame) /\ nextFrameID \in Nat /\ hasPTS \in BOOLEAN /\ lastPTS \in Int
    BY DEF FramesInv, SessionType
  <1>2. Len(buffer) \in Nat
    BY <1>1, LenProperties
  <1>3. Numbered(buffer, nextFrameID) /\ lastKeyFrameIdx = LastKeyOf(buffer)
    BY DEF FramesInv, BufferConsistent, Numbered
  <1>4. PICK last \in Int : last < f.pts /\ Ascending(buffer, last)
    <2>1. CASE hasPTS
      <3>1. Ascending(buffer, lastPTS)
        BY DEF FramesInv, PTSIncreasing, Ascending
      <3>. QED
        BY <1>1, <2>1, <3>1
    <2>2. CASE ~hasPTS
      <3>1. \A i \in 1 .. Len(buffer) : FALSE
        BY <2>2 DEF FramesInv, PTSIncreasing
      <3>2. Ascending(buffer, f.pts - 1)
        BY <3>1 DEF Ascending
      <3>3. f.pts - 1 \in Int /\ f.pts - 1 < f.pts
        <4>1. \A n \in Int : n - 1 \in Int /\ n - 1 < n
          OBVIOUS
        <4>2. f.pts \in Int
          BY DEF Frame
        <4>. QED
          BY <4>1, <4>2
      <3>. QED
        BY <3>2, <3>3
    <2>. QED
      BY <2>1, <2>2
  <1>5. b \in Seq(Frame) /\ Numbered(b, nextFrameID + 1) /\ Ascending(b, f.pts)
    BY <1>1, <1>3, <1>4, AppendKeeps
  <1>6. IsSuffix(t, b)
    BY <1>5, FitBytesSuffix
  <1>7. t \in Seq(Frame) /\ Numbered(t, nextFrameID + 1) /\ Ascending(t, f.pts)
    BY <1>1, <1>5, <1>6, SuffixKeeps, nextFrameID + 1 \in Nat, f.pts \in Int
  <1>8. IsSuffix(u, t) /\ Len(u) <= maxFrames
    BY <1>7, FitCountSuffix
  <1>9. u \in Seq(Frame) /\ Numbered(u, nextFrameID + 1) /\ Ascending(u, f.pts)
    BY <1>1, <1>7, <1>8, SuffixKeeps, nextFrameID + 1 \in Nat, f.pts \in Int
  <1>10. buffer' = u /\ nextFrameID' = nextFrameID + 1
    BY DEF Store
  <1>11. lastKeyFrameIdx' = LastKeyOf(u)
    <2>1. Len(b) = Len(buffer) + 1
      BY <1>1, AppendProperties
    <2>2. (IF f.key THEN Len(b) ELSE lastKeyFrameIdx) = LastKeyOf(b)
      BY <1>1, <1>3, <2>1, KeyAfterAppend
    <2>3. lastKeyFrameIdx' = KeyAfterTrim(KeyAfterTrim(LastKeyOf(b), b, t), t, u)
      BY <2>2 DEF Store
    <2>4. KeyAfterTrim(LastKeyOf(b), b, t) = LastKeyOf(t)
      BY <1>5, <1>6, KeyAfterSuffix
    <2>5. KeyAfterTrim(LastKeyOf(t), t, u) = LastKeyOf(u)
      BY <1>7, <1>8, KeyAfterSuffix
    <2>. QED
      BY <2>3, <2>4, <2>5
  <1>. HIDE DEF u
  <1>12. SessionType'
    BY <1>1, <1>9, <1>10 DEF SessionType
  <1>13. BufferConsistent'
    BY <1>8, <1>9, <1>10, <1>11 DEF BufferConsistent, Numbered, LastKeyOf
  <1>14. PTSIncreasing'
    BY <1>9, <1>10 DEF PTSIncreasing, Ascending
  <1>. QED
    BY <1>12, <1>13, <1>14 DEF FramesInv

\* AppendFrame, with anything a camera sends.
LEMMA AppendFrameKeeps ==
    ASSUME FramesInv, NEW in \in FrameInputs, NEW e \in Nat, AppendFrame(in, e)
    PROVE  FramesInv'
  <1>1. in.key \in BOOLEAN /\ in.bytes \in Nat /\ in.raw \in Nat
    BY SessionAssumption DEF SessionAssumption
  <1>2. CASE seenValidFrame /\ ~in.startCode
    BY <1>2, UntouchedKeeps DEF AppendFrame
  <1>3. CASE ~(seenValidFrame /\ ~in.startCode) /\ in.bytes = 0
    BY <1>3, UntouchedKeeps DEF AppendFrame
  <1>4. CASE ~(seenValidFrame /\ ~in.startCode) /\ in.bytes # 0
    <2>. DEFINE f == [id |-> nextFrameID + 1, key |-> in.key, bytes |-> in.bytes,
                      pts |-> lastPTS', epoch |-> e]
    <2>1. /\ \E step \in Steps : RebasePTS(in.raw, step)
          /\ Store(f)
      BY <1>4 DEF AppendFrame
    <2>2. /\ hasPTS' = TRUE /\ lastRawPTS' \in Int /\ lastPTS' \in Int /\ ptsOffset' \in Int
          /\ lastPTS' = lastRawPTS' + ptsOffset'
          /\ hasPTS => lastPTS < lastPTS'
      BY <1>1, <2>1, RebaseIncreases
    <2>3. f \in Frame /\ f.id = nextFrameID + 1 /\ f.pts = lastPTS'
      BY <1>1, <2>2 DEF Frame, FramesInv, SessionType
    <2>. HIDE DEF f
    <2>. QED
      BY <2>1, <2>2, <2>3, StoreKeeps
  <1>. QED
    BY <1>2, <1>3, <1>4

\* A frame from a client, for the session there is or for none.
LEMMA OnVideoFrameKeeps ==
    ASSUME FramesInv, NEW in \in FrameInputs, NEW e \in Nat, OnVideoFrame(in, e)
    PROVE  FramesInv'
  <1>1. CASE sid = 0
    BY <1>1, UntouchedKeeps DEF OnVideoFrame, session, frames, timing
  <1>2. CASE sid # 0
    BY <1>2, AppendFrameKeeps DEF OnVideoFrame
  <1>. QED
    BY <1>1, <1>2

\* The camera's part of the invariant.
LEMMA CameraKeeps ==
    ASSUME CameraType, [Next]_vars
    PROVE  CameraType'
  <1>1. CASE StopLivestream
    BY <1>1, SessionAssumption DEF StopLivestream, CameraType, SessionAssumption
  <1>2. CASE UNCHANGED <<epoch, late>>
    BY <1>2 DEF CameraType
  <1>3. CASE StationStarts
    BY <1>3 DEF StationStarts, CameraType
  <1>4. CASE LateFrame
    BY <1>4 DEF LateFrame, CameraType
  <1>5. RestartBegin \/ EnsureBegin => StopLivestream \/ UNCHANGED <<epoch, late>>
    BY DEF RestartBegin, EnsureBegin, camera
  <1>6. \/ Poll \/ PollFindsNone \/ Connect \/ EnsureStart \/ StartDone \/ StartFails
        \/ FeedFrame \/ Wake \/ FallSilent \/ Tick \/ UNCHANGED vars
        => UNCHANGED <<epoch, late>>
    BY DEF Poll, PollFindsNone, Connect, EnsureStart, StartDone, StartFails, FeedFrame, Wake,
           FallSilent, Tick, vars, camera
  <1>. QED
    BY <1>1, <1>2, <1>3, <1>4, <1>5, <1>6 DEF Next

LEMMA InitInv ==
    ASSUME Init
    PROVE  SessionInv
  <1>1. <<>> \in Seq(Frame) /\ Len(<<>>) = 0
    BY EmptySeq
  <1>2. /\ buffer = <<>> /\ nextFrameID = 0 /\ lastKeyFrameIdx = 0 /\ hasPTS = FALSE
        /\ lastRawPTS = 0 /\ lastPTS = 0 /\ ptsOffset = 0 /\ epoch = 1 /\ late = 0
    BY DEF Init
  <1>3. buffer \in Seq(Frame) /\ Len(buffer) = 0
    BY <1>1, <1>2
  <1>4. SessionType /\ CameraType
    <2>1. /\ nextFrameID \in Nat /\ lastRawPTS \in Int
          /\ lastPTS \in Int /\ ptsOffset \in Int /\ epoch \in Nat /\ late \in Nat
      BY <1>2
    <2>2. hasPTS \in BOOLEAN
      BY <1>2
    <2>. QED
      BY <1>3, <2>1, <2>2 DEF SessionType, CameraType
  <1>5. LastKeyOf(buffer) = 0
    BY <1>3 DEF LastKeyOf
  <1>6. BufferConsistent
    BY <1>2, <1>3, <1>5, SessionAssumption DEF BufferConsistent, SessionAssumption
  <1>7. PTSIncreasing
    BY <1>2, <1>3 DEF PTSIncreasing
  <1>. QED
    BY <1>4, <1>6, <1>7 DEF SessionInv, FramesInv

LEMMA NextInv ==
    ASSUME SessionInv, [Next]_vars
    PROVE  SessionInv'
  <1>. USE DEF SessionInv
  <1>1. CameraType'
    BY CameraKeeps
  <1>2. CASE Poll \/ PollFindsNone \/ Connect \/ StationStarts \/ Wake \/ FallSilent \/ Tick
             \/ StartDone \/ UNCHANGED vars
    <2>1. UNCHANGED <<frames, timing>>
      BY <1>2 DEF Poll, PollFindsNone, Connect, StationStarts, Wake, FallSilent, Tick, StartDone,
                  vars, session, frames, timing
    <2>. QED
      BY <1>1, <2>1, UntouchedKeeps
  <1>3. CASE RestartBegin
    <2>1. CASE UNCHANGED session
      BY <1>1, <2>1, UntouchedKeeps DEF session, frames, timing
    <2>2. CASE ~(sid = 0 \/ ~NeedsRestart \/ ~ShouldAttemptRestart)
      <3>1. /\ buffer' = <<>> /\ lastKeyFrameIdx' = 0 /\ nextFrameID' = nextFrameID
            /\ UNCHANGED <<hasPTS, lastRawPTS, lastPTS, ptsOffset>>
        BY <1>3, <2>2 DEF RestartBegin, timing
      <3>2. buffer' \in Seq(Frame)
        BY <3>1, EmptySeq
      <3>3. SessionType'
        BY <3>1, <3>2 DEF FramesInv, SessionType
      <3>4. hasPTS' => lastPTS' = lastRawPTS' + ptsOffset'
        BY <3>1 DEF FramesInv, PTSIncreasing
      <3>. QED
        BY <1>1, <3>1, <3>3, <3>4, EmptiedKeeps
    <2>. QED
      BY <1>3, <2>1, <2>2 DEF RestartBegin
  <1>4. CASE EnsureBegin
    <2>1. UNCHANGED session \/ EmptySession
      BY <1>4 DEF EnsureBegin, StopStream
    <2>. QED
      BY <1>1, <2>1, UntouchedKeeps, EmptySessionKeeps DEF session, frames, timing
  <1>5. CASE EnsureStart
    BY <1>1, <1>5, EmptySessionKeeps DEF EnsureStart, StartStream
  <1>6. CASE StartFails
    <2>1. UNCHANGED <<frames, timing>> \/ EmptySession
      BY <1>6 DEF StartFails, StopStream
    <2>. QED
      BY <1>1, <2>1, UntouchedKeeps, EmptySessionKeeps
  <1>7. CASE FeedFrame
    BY <1>1, <1>7, OnVideoFrameKeeps DEF FeedFrame, CameraType
  <1>8. CASE LateFrame
    BY <1>1, <1>8, OnVideoFrameKeeps DEF LateFrame, CameraType
  <1>. QED
    BY <1>2, <1>3, <1>4, <1>5, <1>6, <1>7, <1>8 DEF Next

\* For every size of the buffer and every input, with restarts, replacements and
\* late frames: the buffer is a window of consecutive frames and lastKeyFrameIdx
\* the last keyframe in it (AppendFrame, ClearBuffer, recalcKeyFrameIdx).
THEOREM BufferStaysConsistent == Spec => []BufferConsistent
  <1>1. Init => SessionInv
    BY InitInv
  <1>2. SessionInv /\ [Next]_vars => SessionInv'
    BY NextInv
  <1>3. SessionInv => BufferConsistent
    BY DEF SessionInv, FramesInv
  <1>. QED
    BY <1>1, <1>2, <1>3, PTL DEF Spec

\* For every sequence of camera timestamps the buffered ones increase strictly
\* (rebasePTS).
THEOREM TimestampsIncrease == Spec => []PTSIncreasing
  <1>1. Init => SessionInv
    BY InitInv
  <1>2. SessionInv /\ [Next]_vars => SessionInv'
    BY NextInv
  <1>3. SessionInv => PTSIncreasing
    BY DEF SessionInv, FramesInv
  <1>. QED
    BY <1>1, <1>2, <1>3, PTL DEF Spec

-----------------------------------------------------------------------------
(* The timestamps a consumer receives.                                     *)

\* Induction on the members of a set, from the least number that is not one.
LEMMA InductiveSet ==
    ASSUME NEW S, 0 \in S, \A n \in Nat : n \in S => n + 1 \in S
    PROVE  \A n \in Nat : n \in S
  <1>. DEFINE T == {n \in Nat : n \notin S}
              Order == OpToRel(<, Nat)
  <1>1. IsWellFoundedOn(Order, Nat)
    BY NatLessThanWellFounded, Zenon
  <1>2. \A x, y \in Nat : y < x => <<y, x>> \in Order
    BY DEF OpToRel
  <1>. SUFFICES ASSUME T # {} PROVE FALSE
    OBVIOUS
  <1>3. T \subseteq Nat
    OBVIOUS
  <1>. HIDE DEF Order, T
  <1>4. PICK x \in T : \A y \in T : ~(<<y, x>> \in Order)
    BY <1>1, <1>3, WFMin
  <1>5. x \in Nat /\ x \notin S
    BY DEF T
  <1>6. x - 1 \in Nat /\ (x - 1) + 1 = x /\ x - 1 < x
    BY <1>5
  <1>7. x - 1 \in T
    BY <1>5, <1>6 DEF T
  <1>8. QED BY <1>2, <1>4, <1>5, <1>6, <1>7

Remapper == [base : Int, haveBase : BOOLEAN, last : Int, haveLast : BOOLEAN]

\* ptsRemapper.Remap gives out more than it gave out before, whatever it is
\* asked to map.
LEMMA RemapIncreases ==
    ASSUME NEW r \in Remapper, NEW pts \in Int
    PROVE  /\ Remap(r, pts) \in Remapper
           /\ Remap(r, pts).haveLast
           /\ r.haveLast => r.last < Remap(r, pts).last
  <1>1. /\ r.base \in Int /\ r.last \in Int
    BY DEF Remapper
  <1>. DEFINE base == IF r.haveBase THEN r.base ELSE pts
              out  == (IF pts < base THEN base ELSE pts) - base + 1000
              last == IF r.haveLast /\ out <= r.last THEN r.last + 1 ELSE out
  <1>2. base \in Int
    BY <1>1
  <1>3. out \in Int
    <2>. HIDE DEF base
    <2>. QED BY <1>2
  <1>4. last \in Int /\ (r.haveLast => r.last < last)
    <2>. HIDE DEF out
    <2>. QED BY <1>1, <1>3
  <1>5. Remap(r, pts) = [base |-> base, haveBase |-> TRUE, haveLast |-> TRUE, last |-> last]
    BY DEF Remap
  <1>. HIDE DEF base, last
  <1>6. QED BY <1>2, <1>4, <1>5 DEF Remapper

Timestamps(b) == \A k \in 1 .. Len(b) : b[k].pts \in Int

\* RemapBatch is what its recursion says: the function there is.
LEMMA RemapBatchIs ==
    ASSUME NEW r, NEW b, Len(b) \in Nat
    PROVE  RemapBatch(r, b) =
             [k \in 0 .. Len(b) |-> IF k = 0 THEN r ELSE Remap(RemapBatch(r, b)[k - 1], b[k].pts)]
  <1>. DEFINE Is(f, n) == f = [k \in 0 .. n |-> IF k = 0 THEN r ELSE Remap(f[k - 1], b[k].pts)]
              S == {n \in Nat : \E f : Is(f, n)}
  <1>1. 0 \in S
    <2>. DEFINE g == [k \in 0 .. 0 |-> r]
    <2>1. Is(g, 0)
      OBVIOUS
    <2>2. QED BY <2>1
  <1>2. ASSUME NEW n \in Nat, n \in S PROVE n + 1 \in S
    <2>1. PICK f : Is(f, n)
      BY <1>2
    <2>. DEFINE g == [k \in 0 .. n + 1 |-> IF k = n + 1 THEN Remap(f[n], b[n + 1].pts) ELSE f[k]]
    <2>2. \A k \in 0 .. n + 1 : g[k] = IF k = 0 THEN r ELSE Remap(g[k - 1], b[k].pts)
      <3>. TAKE k \in 0 .. n + 1
      <3>1. CASE k = n + 1
        BY <3>1
      <3>2. CASE k \in 0 .. n /\ k # 0
        BY <2>1, <3>2
      <3>3. CASE k = 0
        BY <2>1, <3>3
      <3>4. QED BY <3>1, <3>2, <3>3
    <2>3. Is(g, n + 1)
      BY <2>2
    <2>. HIDE DEF g
    <2>4. QED BY <2>3
  <1>3. Len(b) \in S
    <2>. HIDE DEF S
    <2>. QED BY <1>1, <1>2, InductiveSet
  <1>4. \E f : Is(f, Len(b))
    BY <1>3
  <1>5. RemapBatch(r, b) = CHOOSE f : Is(f, Len(b))
    BY DEF RemapBatch
  <1>6. Is(RemapBatch(r, b), Len(b))
    <2>. HIDE DEF Is
    <2>. QED BY <1>4, <1>5, Zenon
  <1>7. QED BY <1>6

\* Each timestamp of a batch comes out greater than the one before, the first
\* one greater than what came out before the batch.
LEMMA RemapBatchIncreases ==
    ASSUME NEW r \in Remapper, NEW b, Len(b) \in Nat, Timestamps(b)
    PROVE  LET after == RemapBatch(r, b)
           IN  /\ after[0] = r
               /\ \A k \in 0 .. Len(b) : after[k] \in Remapper
               /\ \A k \in 1 .. Len(b) : after[k].haveLast
               /\ r.haveLast /\ Len(b) > 0 => r.last < after[1].last
               /\ \A k \in 2 .. Len(b) : after[k - 1].last < after[k].last
  <1>. DEFINE after == RemapBatch(r, b)
  <1>1. after = [k \in 0 .. Len(b) |-> IF k = 0 THEN r ELSE Remap(after[k - 1], b[k].pts)]
    BY RemapBatchIs
  <1>. HIDE DEF after
  <1>2. /\ after[0] = r
        /\ \A k \in 1 .. Len(b) : after[k] = Remap(after[k - 1], b[k].pts)
    BY <1>1
  <1>3. \A k \in 0 .. Len(b) : after[k] \in Remapper
    <2>. DEFINE S == {k \in Nat : k <= Len(b) => after[k] \in Remapper}
    <2>1. 0 \in S
      BY <1>2
    <2>2. ASSUME NEW k \in Nat, k \in S PROVE k + 1 \in S
      <3>1. SUFFICES ASSUME k + 1 <= Len(b) PROVE after[k + 1] \in Remapper
        OBVIOUS
      <3>2. after[k] \in Remapper /\ k + 1 \in 1 .. Len(b) /\ (k + 1) - 1 = k
        BY <2>2, <3>1
      <3>3. after[k + 1] = Remap(after[k], b[k + 1].pts) /\ b[k + 1].pts \in Int
        BY <1>2, <3>2 DEF Timestamps
      <3>4. QED BY <3>2, <3>3, RemapIncreases
    <2>3. \A k \in Nat : k \in S
      <3>. HIDE DEF S
      <3>. QED BY <2>1, <2>2, InductiveSet
    <2>4. QED BY <2>3
  <1>4. ASSUME NEW k \in 1 .. Len(b)
        PROVE  after[k].haveLast /\ (after[k - 1].haveLast => after[k - 1].last < after[k].last)
    <2>1. after[k - 1] \in Remapper /\ b[k].pts \in Int
      BY <1>3 DEF Timestamps
    <2>2. after[k] = Remap(after[k - 1], b[k].pts)
      BY <1>2
    <2>3. QED BY <2>1, <2>2, RemapIncreases
  <1>5. r.haveLast /\ Len(b) > 0 => r.last < after[1].last
    <2>. SUFFICES ASSUME r.haveLast, Len(b) > 0 PROVE r.last < after[1].last
      OBVIOUS
    <2>1. 1 \in 1 .. Len(b) /\ 1 - 1 = 0
      OBVIOUS
    <2>2. after[1 - 1].haveLast
      BY <1>2
    <2>3. QED BY <1>2, <1>4, <2>1, <2>2
  <1>6. ASSUME NEW k \in 2 .. Len(b) PROVE after[k - 1].last < after[k].last
    <2>1. k - 1 \in 1 .. Len(b) /\ k \in 1 .. Len(b)
      OBVIOUS
    <2>2. QED BY <1>4, <2>1
  <1>7. QED BY <1>2, <1>3, <1>4, <1>5, <1>6 DEF after

-----------------------------------------------------------------------------
(* What GetFramesSince hands to a consumer.                                *)

LEMMA LastKeyIs ==
    ASSUME NEW b \in Seq(Frame)
    PROVE  /\ LastKeyOf(b) \in 0 .. Len(b)
           /\ LastKeyOf(b) # 0 => b[LastKeyOf(b)].key
  <1>. DEFINE keys == {i \in 1 .. Len(b) : b[i].key}
  <1>1. Len(b) \in Nat
    BY LenProperties
  <1>2. CASE keys = {}
    BY <1>1, <1>2 DEF LastKeyOf
  <1>3. CASE keys # {}
    <2>1. \E x \in keys : \A y \in keys : y <= x
      <3>. DEFINE S == {n \in Nat : n <= Len(b) /\ (\E i \in keys : i <= n)
                                      => \E x \in keys : x <= n /\ \A y \in keys : y <= n => y <= x}
      <3>1. 0 \in S
        OBVIOUS
      <3>2. ASSUME NEW n \in Nat, n \in S PROVE n + 1 \in S
        <4>1. SUFFICES ASSUME n + 1 <= Len(b), \E i \in keys : i <= n + 1
                       PROVE  \E x \in keys : x <= n + 1 /\ \A y \in keys : y <= n + 1 => y <= x
          OBVIOUS
        <4>2. CASE n + 1 \in keys
          BY <4>2
        <4>3. CASE n + 1 \notin keys
          <5>1. \E i \in keys : i <= n
            BY <4>1, <4>3
          <5>2. PICK x \in keys : x <= n /\ \A y \in keys : y <= n => y <= x
            BY <3>2, <4>1, <5>1
          <5>3. \A y \in keys : y <= n + 1 => y <= n
            BY <4>3
          <5>4. QED BY <5>2, <5>3
        <4>4. QED BY <4>2, <4>3
      <3>3. Len(b) \in S
        <4>. HIDE DEF S
        <4>. QED BY <1>1, <3>1, <3>2, InductiveSet
      <3>4. QED BY <1>1, <1>3, <3>3
    <2>2. PICK x \in keys : \A y \in keys : y <= x
      BY <2>1
    <2>3. LastKeyOf(b) = CHOOSE i \in keys : \A j \in keys : j <= i
      BY <1>3 DEF LastKeyOf
    <2>4. LastKeyOf(b) \in keys
      <3>. HIDE DEF keys
      <3>. QED BY <2>2, <2>3
    <2>5. QED BY <1>1, <2>4
  <1>4. QED BY <1>2, <1>3

\* How many frames of the buffer a consumer that is at since has had.
LEMMA HadFrames ==
    ASSUME FramesInv, NEW since \in Nat, since <= nextFrameID
    PROVE  LET had  == Cardinality({i \in 1 .. Len(buffer) : buffer[i].id <= since})
               gone == nextFrameID - Len(buffer)
           IN  /\ had \in 0 .. Len(buffer)
               /\ since <= gone => had = 0
               /\ since > gone => had = since - gone
  <1>. DEFINE seen == {i \in 1 .. Len(buffer) : buffer[i].id <= since}
              gone == nextFrameID - Len(buffer)
  <1>1. /\ buffer \in Seq(Frame) /\ Len(buffer) \in Nat /\ nextFrameID \in Nat
        /\ \A i \in 1 .. Len(buffer) : buffer[i].id = gone + i
    BY LenProperties DEF FramesInv, SessionType, BufferConsistent
  <1>2. gone \in Int
    BY <1>1
  <1>3. CASE since <= gone
    <2>1. seen = {}
      BY <1>1, <1>2, <1>3
    <2>2. Cardinality(seen) = 0
      <3>. HIDE DEF seen
      <3>. QED BY <2>1, FS_EmptySet
    <2>. HIDE DEF seen
    <2>3. /\ Cardinality(seen) \in 0 .. Len(buffer)
          /\ since <= gone => Cardinality(seen) = 0
          /\ since > gone => Cardinality(seen) = since - gone
      BY <1>1, <1>2, <1>3, <2>2
    <2>4. QED BY <2>3 DEF seen
  <1>4. CASE since > gone
    <2>1. seen = 1 .. since - gone /\ since - gone \in Nat
      BY <1>1, <1>2, <1>4
    <2>2. Cardinality(1 .. since - gone) = since - gone
      BY <2>1, FS_Interval
    <2>3. since - gone <= Len(buffer)
      BY <1>1
    <2>4. Cardinality(seen) = since - gone
      <3>. HIDE DEF seen
      <3>. QED BY <2>1, <2>2
    <2>. HIDE DEF seen
    <2>5. /\ Cardinality(seen) \in 0 .. Len(buffer)
          /\ since <= gone => Cardinality(seen) = 0
          /\ since > gone => Cardinality(seen) = since - gone
      BY <1>1, <1>2, <1>4, <2>1, <2>3, <2>4
    <2>6. QED BY <2>5 DEF seen
  <1>5. QED BY <1>2, <1>3, <1>4

\* The frames that since has not had: they start with a keyframe, or directly
\* behind the frame since, if that is still in the buffer, and end with the
\* newest.
Continues(batch, since) ==
    /\ batch \in Seq(Frame)
    /\ IF batch = <<>> THEN NextSince(since) = since
       ELSE /\ NextSince(since) = nextFrameID
            /\ batch[Len(batch)].id = nextFrameID
            /\ \A k \in 1 .. Len(batch) : \E i \in 1 .. Len(buffer) : batch[k] = buffer[i]
            /\ \A k \in 2 .. Len(batch) : batch[k].id = batch[k - 1].id + 1
            /\ \/ batch[1].key
               \/ /\ since # 0 /\ batch[1].id = since + 1
                  /\ since > nextFrameID - Len(buffer)

LEMMA FramesSinceIs ==
    ASSUME FramesInv, NEW since \in Nat, since <= nextFrameID
    PROVE  Continues(FramesSince(since), since)
  <1>. DEFINE gone == nextFrameID - Len(buffer)
              next == Cardinality({i \in 1 .. Len(buffer) : buffer[i].id <= since}) + 1
              start == StartIdx(since)
              batch == FramesSince(since)
  <1>1. /\ buffer \in Seq(Frame) /\ Len(buffer) \in Nat /\ nextFrameID \in Nat
        /\ \A i \in 1 .. Len(buffer) : buffer[i].id = gone + i
        /\ lastKeyFrameIdx = LastKeyOf(buffer)
    BY LenProperties DEF FramesInv, SessionType, BufferConsistent
  <1>2. /\ lastKeyFrameIdx \in 0 .. Len(buffer)
        /\ lastKeyFrameIdx # 0 => buffer[lastKeyFrameIdx].key
    BY <1>1, LastKeyIs
  <1>3. /\ next \in 1 .. Len(buffer) + 1
        /\ since <= gone => next = 1
        /\ since > gone => next = since - gone + 1
    <2>. DEFINE had == Cardinality({i \in 1 .. Len(buffer) : buffer[i].id <= since})
    <2>1. /\ had \in 0 .. Len(buffer)
          /\ since <= gone => had = 0
          /\ since > gone => had = since - gone
      BY HadFrames
    <2>2. next = had + 1
      OBVIOUS
    <2>3. gone \in Int /\ Len(buffer) \in Nat
      BY <1>1
    <2>. HIDE DEF had, next, gone
    <2>4. QED BY <2>1, <2>2, <2>3
  <1>4. start = IF lastKeyFrameIdx = 0 THEN 0
                ELSE IF since = 0 \/ next < lastKeyFrameIdx THEN lastKeyFrameIdx ELSE next
    BY DEF StartIdx
  <1>5. /\ batch = IF start = 0 THEN <<>> ELSE SubSeq(buffer, start, Len(buffer))
        /\ NextSince(since) = IF start = 0 THEN since ELSE nextFrameID
    BY DEF FramesSince, NextSince
  <1>. HIDE DEF start, batch, next
  <1>6. CASE start = 0
    BY <1>5, <1>6, EmptySeq DEF Continues, batch
  <1>7. CASE start = Len(buffer) + 1
    <2>1. next = Len(buffer) + 1 /\ lastKeyFrameIdx # 0
      BY <1>1, <1>2, <1>3, <1>4, <1>7
    <2>2. since = nextFrameID
      BY <1>1, <1>2, <1>3, <2>1
    <2>3. batch = <<>>
      BY <1>1, <1>5, <1>7, SubSeqProperties
    <2>4. QED BY <1>5, <1>1, <1>7, <2>2, <2>3, EmptySeq DEF Continues, batch
  <1>8. CASE start \in 1 .. Len(buffer)
    <2>1. start - 1 \in 0 .. Len(buffer) /\ start = (start - 1) + 1
      BY <1>1, <1>8
    <2>2. batch = SubSeq(buffer, (start - 1) + 1, Len(buffer))
      BY <1>5, <1>8, <2>1
    <2>3. /\ batch \in Seq(Frame) /\ Len(batch) = Len(buffer) - (start - 1)
          /\ \A i \in 1 .. Len(buffer) - (start - 1) : batch[i] = buffer[i + (start - 1)]
      BY <1>1, <2>1, <2>2, SuffixElements
    <2>4. Len(batch) \in Nat /\ Len(batch) >= 1
      BY <1>1, <1>8, <2>3
    <2>5. \A k \in 1 .. Len(batch) : /\ k + (start - 1) \in 1 .. Len(buffer)
                                     /\ batch[k] = buffer[k + (start - 1)]
                                     /\ batch[k].id = gone + (k + (start - 1))
      BY <1>1, <1>8, <2>3
    <2>6. batch[Len(batch)].id = nextFrameID
      BY <1>1, <1>8, <2>3, <2>4, <2>5
    <2>7. \A k \in 2 .. Len(batch) : batch[k].id = batch[k - 1].id + 1
      <3>. TAKE k \in 2 .. Len(batch)
      <3>1. k \in 1 .. Len(batch) /\ k - 1 \in 1 .. Len(batch)
        BY <2>4
      <3>2. batch[k].id = gone + (k + (start - 1)) /\ batch[k - 1].id = gone + ((k - 1) + (start - 1))
        BY <2>5, <3>1
      <3>3. QED BY <1>1, <1>8, <3>2
    <2>8. \/ batch[1].key
          \/ since # 0 /\ batch[1].id = since + 1 /\ since > gone
      <3>1. batch[1] = buffer[start] /\ batch[1].id = gone + start
        <4>1. 1 \in 1 .. Len(batch) /\ 1 + (start - 1) = start
          BY <1>8, <2>4
        <4>2. QED BY <2>5, <4>1
      <3>2. CASE start = lastKeyFrameIdx
        BY <1>2, <1>8, <3>1, <3>2
      <3>3. CASE start # lastKeyFrameIdx
        <4>1. start = next /\ since # 0 /\ next > lastKeyFrameIdx /\ lastKeyFrameIdx >= 1
          BY <1>1, <1>2, <1>3, <1>4, <1>8, <3>3
        <4>2. since > gone /\ next = since - gone + 1
          BY <1>1, <1>2, <1>3, <4>1
        <4>3. QED BY <1>1, <3>1, <4>1, <4>2
      <3>4. QED BY <3>2, <3>3
    <2>9. batch # <<>>
      BY <2>4
    <2>10. \A k \in 1 .. Len(batch) : \E i \in 1 .. Len(buffer) : batch[k] = buffer[i]
      BY <2>5
    <2>11. NextSince(since) = nextFrameID
      BY <1>5, <1>8
    <2>12. QED BY <2>3, <2>6, <2>7, <2>8, <2>9, <2>10, <2>11 DEF Continues, batch
  <1>9. start \in 0 .. Len(buffer) + 1
    BY <1>1, <1>2, <1>3, <1>4
  <1>10. QED BY <1>1, <1>6, <1>7, <1>8, <1>9

-----------------------------------------------------------------------------
(* The consumer.                                                           *)

Delivered == [id : Nat, key : BOOLEAN, epoch : Nat, sid : Nat, pts : Int, out : Int]

\* The consumer is bound to a session there was; its remapper goes on from the
\* last timestamp it wrote.
ConsumerInv ==
    /\ streamIDCounter \in Nat /\ sid \in {0, streamIDCounter}
    /\ boundTo \in 0 .. streamIDCounter
    /\ lastFrameID \in Nat
    /\ sid # 0 /\ boundTo = sid => lastFrameID <= nextFrameID
    /\ remapper \in Remapper
    /\ wire \in Seq(Delivered)
    /\ TimelineIncreasing
    /\ wire # <<>> => remapper.haveLast /\ remapper.last = wire[Len(wire)].out

\* What was written is the last frame of the batch before, if there was one, and
\* the frames of this one.
Extends(w, batch, after) ==
    LET before == IF wire = <<>> THEN 0 ELSE 1
    IN  /\ w \in Seq(Delivered)
        /\ Len(w) = before + Len(batch)
        /\ before = 1 => w[1] = wire[Len(wire)]
        /\ \A k \in 1 .. Len(batch) :
              w[before + k] = [id |-> batch[k].id, key |-> batch[k].key, epoch |-> batch[k].epoch,
                               sid |-> sid, pts |-> batch[k].pts, out |-> after[k].last]

LEMMA WireExtends ==
    ASSUME wire \in Seq(Delivered), sid \in Nat, NEW batch \in Seq(Frame), NEW after,
           \A k \in 1 .. Len(batch) : after[k].last \in Int
    PROVE  Extends((IF wire = <<>> THEN <<>> ELSE <<wire[Len(wire)]>>) \o Written(batch, after, sid),
                   batch, after)
  <1>. DEFINE pre == IF wire = <<>> THEN <<>> ELSE <<wire[Len(wire)]>>
              new == Written(batch, after, sid)
              before == IF wire = <<>> THEN 0 ELSE 1
  <1>1. /\ Len(batch) \in Nat
        /\ \A k \in 1 .. Len(batch) : batch[k] \in Frame
    BY LenProperties, ElementOfSeq
  <1>2. /\ new \in Seq(Delivered) /\ Len(new) = Len(batch)
        /\ \A k \in 1 .. Len(batch) :
              new[k] = [id |-> batch[k].id, key |-> batch[k].key, epoch |-> batch[k].epoch,
                        sid |-> sid, pts |-> batch[k].pts, out |-> after[k].last]
    <2>1. new = [k \in 1 .. Len(batch) |->
                   [id |-> batch[k].id, key |-> batch[k].key, epoch |-> batch[k].epoch,
                    sid |-> sid, pts |-> batch[k].pts, out |-> after[k].last]]
      BY DEF Written
    <2>2. \A k \in 1 .. Len(batch) :
             [id |-> batch[k].id, key |-> batch[k].key, epoch |-> batch[k].epoch,
              sid |-> sid, pts |-> batch[k].pts, out |-> after[k].last] \in Delivered
      BY <1>1 DEF Delivered, Frame
    <2>3. new \in [1 .. Len(batch) -> Delivered]
      BY <2>1, <2>2
    <2>. HIDE DEF new
    <2>4. QED BY <1>1, <2>1, <2>3
  <1>3. pre \in Seq(Delivered) /\ Len(pre) = before /\ (before = 1 => pre[1] = wire[Len(wire)])
    <2>1. CASE wire = <<>>
      BY <2>1, EmptySeq
    <2>2. CASE wire # <<>>
      <3>1. Len(wire) \in Nat /\ Len(wire) >= 1
        BY <2>2, LenProperties, EmptySeq
      <3>2. wire[Len(wire)] \in Delivered
        BY <3>1, ElementOfSeq
      <3>3. QED BY <2>2, <3>2
    <2>3. QED BY <2>1, <2>2
  <1>9. pre \in Seq(Delivered) /\ new \in Seq(Delivered)
    BY <1>2, <1>3
  <1>. HIDE DEF pre, new, before
  <1>4. /\ pre \o new \in Seq(Delivered) /\ Len(pre \o new) = Len(pre) + Len(new)
        /\ \A k \in 1 .. Len(pre) + Len(new) :
              (pre \o new)[k] = IF k <= Len(pre) THEN pre[k] ELSE new[k - Len(pre)]
    BY <1>9, ConcatProperties
  <1>10. before \in {0, 1}
    BY DEF before
  <1>5. before = 1 => (pre \o new)[1] = wire[Len(wire)]
    BY <1>1, <1>2, <1>3, <1>4
  <1>6. ASSUME NEW k \in 1 .. Len(batch) PROVE (pre \o new)[before + k] = new[k]
    BY <1>1, <1>2, <1>3, <1>4, <1>10
  <1>7. Extends(pre \o new, batch, after)
    BY <1>2, <1>3, <1>4, <1>5, <1>6 DEF Extends, before
  <1>8. QED BY <1>7 DEF pre, new

\* One turn of the loop: the consumer reads on behind what it had, or from the
\* start if it has just been bound, and its remapper goes on.
PollReads(since, batch, r) ==
    /\ since \in Nat /\ since <= nextFrameID
    /\ since = 0 \/ (since = lastFrameID /\ boundTo = sid)
    /\ Continues(batch, since)
    /\ r \in Remapper /\ r.last = remapper.last /\ r.haveLast = remapper.haveLast
    /\ boundTo' = sid
    /\ lastFrameID' = NextSince(since)
    /\ remapper' = RemapBatch(r, batch)[Len(batch)]
    /\ batch = <<>> => wire' = wire
    /\ batch # <<>> => Extends(wire', batch, RemapBatch(r, batch))

LEMMA PollIs ==
    ASSUME SessionInv, ConsumerInv, Poll
    PROVE  \E since, batch, r : PollReads(since, batch, r)
  <1>. DEFINE since == IF sid # boundTo THEN 0 ELSE lastFrameID
              r     == IF sid # boundTo THEN [remapper EXCEPT !.haveBase = FALSE] ELSE remapper
              batch == FramesSince(since)
              after == RemapBatch(r, batch)
  <1>1. /\ sid # 0 /\ boundTo' = sid /\ lastFrameID' = NextSince(since)
        /\ remapper' = after[Len(batch)]
        /\ wire' = IF batch = <<>> THEN wire
                   ELSE (IF wire = <<>> THEN <<>> ELSE <<wire[Len(wire)]>>) \o Written(batch, after, sid)
    BY DEF Poll
  <1>2. /\ since \in Nat /\ since <= nextFrameID
        /\ since = 0 \/ (since = lastFrameID /\ boundTo = sid)
    BY <1>1 DEF ConsumerInv, SessionInv, FramesInv, SessionType
  <1>3. r \in Remapper /\ r.last = remapper.last /\ r.haveLast = remapper.haveLast
    BY DEF ConsumerInv, Remapper
  <1>. HIDE DEF since, r
  <1>4. Continues(batch, since)
    BY <1>2, FramesSinceIs DEF SessionInv
  <1>. HIDE DEF batch
  <1>5. batch \in Seq(Frame) /\ Len(batch) \in Nat
    BY <1>4, LenProperties DEF Continues
  <1>6. Timestamps(batch)
    <2>1. \A k \in 1 .. Len(batch) : batch[k] \in Frame
      BY <1>5, ElementOfSeq
    <2>2. \A f \in Frame : f.pts \in Int
      BY DEF Frame
    <2>3. QED BY <2>1, <2>2 DEF Timestamps
  <1>7. \A k \in 1 .. Len(batch) : after[k].last \in Int
    <2>1. \A k \in 0 .. Len(batch) : after[k] \in Remapper
      BY <1>3, <1>5, <1>6, RemapBatchIncreases
    <2>. HIDE DEF after
    <2>2. QED BY <1>5, <2>1 DEF Remapper
  <1>. HIDE DEF after
  <1>8. wire \in Seq(Delivered) /\ sid \in Nat
    BY DEF ConsumerInv
  <1>9. batch # <<>> => Extends(wire', batch, after)
    BY <1>1, <1>5, <1>7, <1>8, WireExtends
  <1>10. PollReads(since, batch, r)
    BY <1>1, <1>2, <1>3, <1>4, <1>9 DEF PollReads, after
  <1>11. QED BY <1>10

\* What a step does to the identity of the session: it stays, and its frames are
\* numbered on, it ends, or a new one comes with a number that nobody had.
IdentityStep ==
    \/ sid' = sid /\ streamIDCounter' = streamIDCounter
       /\ (sid # 0 => nextFrameID' >= nextFrameID)
    \/ sid' = 0 /\ streamIDCounter' = streamIDCounter
    \/ sid = 0 /\ sid' = streamIDCounter + 1 /\ streamIDCounter' = streamIDCounter + 1

LEMMA IdentitySteps ==
    ASSUME SessionInv, [Next]_vars
    PROVE  IdentityStep
  <1>1. nextFrameID \in Nat
    BY DEF SessionInv, FramesInv, SessionType
  <1>2. CASE UNCHANGED session
    BY <1>1, <1>2 DEF IdentityStep, session, frames
  <1>3. CASE UNCHANGED identity /\ UNCHANGED nextFrameID
    BY <1>1, <1>3 DEF IdentityStep, identity
  <1>4. CASE StopStream
    BY <1>4 DEF IdentityStep, StopStream
  <1>5. CASE EnsureStart
    BY <1>5 DEF IdentityStep, EnsureStart, StartStream
  <1>6. ASSUME NEW in, NEW e, AppendFrame(in, e) PROVE IdentityStep
    <2>1. UNCHANGED identity
      BY <1>6 DEF AppendFrame
    <2>2. nextFrameID' \in {nextFrameID, nextFrameID + 1}
      BY <1>6 DEF AppendFrame, Store, frames
    <2>3. QED BY <1>1, <2>1, <2>2 DEF IdentityStep, identity
  <1>7. CASE FeedFrame \/ LateFrame
    BY <1>2, <1>6, <1>7 DEF FeedFrame, LateFrame, OnVideoFrame
  <1>8. CASE Poll \/ PollFindsNone \/ Connect \/ StationStarts \/ Wake \/ FallSilent \/ UNCHANGED vars
    BY <1>2, <1>8 DEF Poll, PollFindsNone, Connect, StationStarts, Wake, FallSilent, vars
  <1>9. CASE RestartBegin \/ EnsureBegin \/ StartFails \/ StartDone \/ Tick
    BY <1>2, <1>3, <1>4, <1>9 DEF RestartBegin, EnsureBegin, StartFails, StartDone, Tick, frames
  <1>10. QED BY <1>5, <1>7, <1>8, <1>9 DEF Next

\* Only the loop of the consumer itself writes to it.
LEMMA OthersDoNotWrite ==
    ASSUME [Next]_vars, ~Poll, ~Connect
    PROVE  UNCHANGED <<lastFrameID, remapper, wire>> /\ boundTo' \in {boundTo, 0}
  <1>1. CASE UNCHANGED consumer
    BY <1>1 DEF consumer
  <1>2. CASE PollFindsNone \/ Tick
    BY <1>2 DEF PollFindsNone, Tick
  <1>3. CASE RestartBegin \/ EnsureBegin \/ EnsureStart \/ StationStarts \/ StartDone \/ StartFails
             \/ FeedFrame \/ LateFrame \/ Wake \/ FallSilent \/ UNCHANGED vars
    BY <1>1, <1>3 DEF RestartBegin, EnsureBegin, EnsureStart, StationStarts, StartDone, StartFails,
                      FeedFrame, LateFrame, OnVideoFrame, Wake, FallSilent, vars
  <1>4. QED BY <1>2, <1>3 DEF Next

LEMMA ConsumerInit ==
    ASSUME Init
    PROVE  ConsumerInv
  <1>1. /\ streamIDCounter = 1 /\ sid = 1 /\ boundTo = 1 /\ lastFrameID = 0 /\ nextFrameID = 0
        /\ remapper = FreshRemapper /\ wire = <<>>
    BY DEF Init
  <1>2. wire \in Seq(Delivered) /\ Len(wire) = 0
    BY <1>1, EmptySeq
  <1>3. remapper \in Remapper
    BY <1>1 DEF FreshRemapper, Remapper
  <1>4. TimelineIncreasing
    BY <1>2 DEF TimelineIncreasing
  <1>5. QED BY <1>1, <1>2, <1>3, <1>4 DEF ConsumerInv

LEMMA PollKeeps ==
    ASSUME SessionInv, ConsumerInv, Poll
    PROVE  ConsumerInv'
  <1>1. PICK since, batch, r : PollReads(since, batch, r)
    BY PollIs
  <1>. DEFINE after == RemapBatch(r, batch)
              before == IF wire = <<>> THEN 0 ELSE 1
  <1>2. /\ UNCHANGED <<streamIDCounter, sid, nextFrameID>>
        /\ sid # 0
    BY DEF Poll, session, frames
  <1>3. /\ batch \in Seq(Frame) /\ Len(batch) \in Nat
        /\ \A k \in 1 .. Len(batch) : batch[k] \in Frame
    BY <1>1, LenProperties, ElementOfSeq DEF PollReads, Continues
  <1>4. Timestamps(batch)
    <2>1. \A f \in Frame : f.pts \in Int
      BY DEF Frame
    <2>2. QED BY <1>3, <2>1 DEF Timestamps
  <1>5. /\ r \in Remapper /\ r.last = remapper.last /\ r.haveLast = remapper.haveLast
        /\ since \in Nat /\ since <= nextFrameID
        /\ boundTo' = sid /\ lastFrameID' = NextSince(since) /\ remapper' = after[Len(batch)]
        /\ batch = <<>> => wire' = wire
        /\ batch # <<>> => Extends(wire', batch, after)
        /\ NextSince(since) \in {since, nextFrameID}
    BY <1>1 DEF PollReads, Continues
  <1>6. /\ after[0] = r
        /\ \A k \in 0 .. Len(batch) : after[k] \in Remapper
        /\ \A k \in 1 .. Len(batch) : after[k].haveLast
        /\ r.haveLast /\ Len(batch) > 0 => r.last < after[1].last
        /\ \A k \in 2 .. Len(batch) : after[k - 1].last < after[k].last
    BY <1>3, <1>4, <1>5, RemapBatchIncreases
  <1>. HIDE DEF after
  <1>7. /\ streamIDCounter' \in Nat /\ sid' \in {0, streamIDCounter'}
        /\ boundTo' \in 0 .. streamIDCounter'
        /\ lastFrameID' \in Nat
        /\ sid' # 0 /\ boundTo' = sid' => lastFrameID' <= nextFrameID'
    BY <1>2, <1>5 DEF ConsumerInv, SessionInv, FramesInv, SessionType
  <1>8. remapper' \in Remapper
    BY <1>3, <1>5, <1>6
  <1>9. CASE batch = <<>>
    <2>1. Len(batch) = 0
      BY <1>9
    <2>2. wire' = wire /\ remapper' = r
      BY <1>5, <1>6, <1>9, <2>1
    <2>3. /\ wire' \in Seq(Delivered)
          /\ TimelineIncreasing'
          /\ wire' # <<>> => remapper'.haveLast /\ remapper'.last = wire'[Len(wire')].out
      BY <1>5, <2>2 DEF ConsumerInv, TimelineIncreasing
    <2>4. QED BY <1>7, <1>8, <2>3 DEF ConsumerInv
  <1>10. CASE batch # <<>>
    <2>1. Len(batch) >= 1
      BY <1>3, <1>10, EmptySeq
    <2>2. /\ wire' \in Seq(Delivered)
          /\ before \in {0, 1}
          /\ Len(wire') = before + Len(batch)
          /\ before = 1 => wire # <<>> /\ wire'[1] = wire[Len(wire)]
      BY <1>5, <1>10 DEF Extends
    <2>3. ASSUME NEW k \in 1 .. Len(batch) PROVE wire'[before + k].out = after[k].last
      <3>1. wire'[before + k] = [id |-> batch[k].id, key |-> batch[k].key, epoch |-> batch[k].epoch,
                                 sid |-> sid, pts |-> batch[k].pts, out |-> after[k].last]
        BY <1>5, <1>10 DEF Extends
      <3>2. QED BY <3>1
    <2>. HIDE DEF before
    <2>4. ASSUME NEW k \in 2 .. Len(wire') PROVE wire'[k - 1].out < wire'[k].out
      <3>1. CASE before = 0
        <4>1. /\ k - 1 \in 1 .. Len(batch) /\ k \in 2 .. Len(batch)
              /\ before + k = k /\ before + (k - 1) = k - 1
          BY <1>3, <2>2, <3>1
        <4>2. wire'[k].out = after[k].last /\ wire'[k - 1].out = after[k - 1].last
          BY <1>3, <2>3, <4>1
        <4>3. QED BY <1>6, <4>1, <4>2
      <3>2. CASE before = 1 /\ k = 2
        <4>1. wire'[1].out = remapper.last /\ remapper.haveLast
          BY <2>2, <3>2 DEF ConsumerInv
        <4>2. wire'[before + 1].out = after[1].last /\ before + 1 = 2
          BY <2>1, <1>3, <2>3, <3>2
        <4>3. r.last < after[1].last /\ k - 1 = 1
          BY <1>5, <1>6, <2>1, <3>2, <4>1
        <4>4. QED BY <1>5, <3>2, <4>1, <4>2, <4>3
      <3>3. CASE before = 1 /\ k # 2
        <4>1. /\ k - 1 \in 2 .. Len(batch) /\ k - 1 \in 1 .. Len(batch) /\ (k - 1) - 1 \in 1 .. Len(batch)
              /\ before + (k - 1) = k /\ before + ((k - 1) - 1) = k - 1
          BY <1>3, <2>2, <3>3
        <4>2. wire'[k].out = after[k - 1].last /\ wire'[k - 1].out = after[(k - 1) - 1].last
          BY <2>3, <4>1
        <4>3. QED BY <1>6, <4>1, <4>2
      <3>4. QED BY <2>2, <3>1, <3>2, <3>3
    <2>5. TimelineIncreasing'
      BY <2>4 DEF TimelineIncreasing
    <2>6. remapper'.haveLast /\ remapper'.last = wire'[Len(wire')].out
      <3>1. Len(batch) \in 1 .. Len(batch) /\ Len(wire') = before + Len(batch)
        BY <1>3, <2>1, <2>2
      <3>2. QED BY <1>5, <1>6, <2>3, <3>1
    <2>7. QED BY <1>7, <1>8, <2>2, <2>5, <2>6 DEF ConsumerInv
  <1>11. QED BY <1>9, <1>10

LEMMA ConsumerKeeps ==
    ASSUME SessionInv, ConsumerInv, [Next]_vars
    PROVE  ConsumerInv'
  <1>1. CASE Poll
    BY <1>1, PollKeeps
  <1>2. CASE Connect
    <2>1. /\ UNCHANGED <<streamIDCounter, sid, nextFrameID>>
          /\ boundTo' = sid /\ lastFrameID' = 0 /\ remapper' = FreshRemapper /\ wire' = <<>>
      BY <1>2 DEF Connect, session, frames
    <2>2. wire' \in Seq(Delivered) /\ Len(wire') = 0
      BY <2>1, EmptySeq
    <2>3. remapper' \in Remapper
      BY <2>1 DEF FreshRemapper, Remapper
    <2>4. TimelineIncreasing'
      BY <2>2 DEF TimelineIncreasing
    <2>5. /\ streamIDCounter' \in Nat /\ sid' \in {0, streamIDCounter'}
          /\ boundTo' \in 0 .. streamIDCounter'
          /\ lastFrameID' \in Nat
          /\ sid' # 0 /\ boundTo' = sid' => lastFrameID' <= nextFrameID'
      BY <2>1 DEF ConsumerInv, SessionInv, FramesInv, SessionType
    <2>6. QED BY <2>1, <2>2, <2>3, <2>4, <2>5 DEF ConsumerInv
  <1>3. CASE ~Poll /\ ~Connect
    <2>1. /\ lastFrameID' = lastFrameID /\ remapper' = remapper /\ wire' = wire
          /\ boundTo' \in {boundTo, 0}
      BY <1>3, OthersDoNotWrite
    <2>2. /\ remapper' \in Remapper /\ wire' \in Seq(Delivered) /\ TimelineIncreasing'
          /\ wire' # <<>> => remapper'.haveLast /\ remapper'.last = wire'[Len(wire')].out
      BY <2>1 DEF ConsumerInv, TimelineIncreasing
    <2>3. nextFrameID' \in Nat
      BY NextInv DEF SessionInv, FramesInv, SessionType
    <2>4. /\ streamIDCounter' \in Nat /\ sid' \in {0, streamIDCounter'}
          /\ boundTo' \in 0 .. streamIDCounter'
          /\ lastFrameID' \in Nat
          /\ sid' # 0 /\ boundTo' = sid' => lastFrameID' <= nextFrameID'
      BY <2>1, <2>3, IdentitySteps DEF IdentityStep, ConsumerInv, SessionInv, FramesInv, SessionType
    <2>5. QED BY <2>2, <2>4 DEF ConsumerInv
  <1>4. QED BY <1>1, <1>2, <1>3

\* For every sequence of frames, restarts, replacements and re-binds the
\* timestamps a consumer receives increase strictly (ptsRemapper.Remap in
\* serveStreamFrames).
THEOREM ConsumerTimelineIncreases == Spec => []TimelineIncreasing
  <1>1. Init => SessionInv /\ ConsumerInv
    BY InitInv, ConsumerInit
  <1>2. SessionInv /\ ConsumerInv /\ [Next]_vars => SessionInv' /\ ConsumerInv'
    BY NextInv, ConsumerKeeps
  <1>3. ConsumerInv => TimelineIncreasing
    BY DEF ConsumerInv
  <1>4. QED BY <1>1, <1>2, <1>3, PTL DEF Spec

-----------------------------------------------------------------------------
(* The types of the rest: clocks, flags, the lock and the feed.            *)

Clocks == age \in Nat /\ badFrames \in Nat /\ sinceRestart \in Nat /\ sinceCheck \in Nat /\ feedAge \in Nat

Flags == everHadFrame \in BOOLEAN /\ seenValidFrame \in BOOLEAN

Controls ==
    /\ waiting \in 0 .. MaxWaiting
    /\ holder \in {"none", "restart", "ensure"}
    /\ feed \in {"off", "waking", "on", "silent"}

LEMMA ClocksKeep ==
    ASSUME Clocks, [Next]_vars
    PROVE  Clocks'
  <1>1. /\ restartCooldown + 1 \in Nat /\ checkInterval + 1 \in Nat /\ StaleThreshold + 1 \in Nat
        /\ \A limit : \A t \in Nat : Older(t, limit) \in Nat
    BY SessionAssumption DEF SessionAssumption, Older
  <1>3. ASSUME UNCHANGED session \/ EmptySession, UNCHANGED sinceCheck, UNCHANGED feedAge
        PROVE  Clocks'
    BY <1>1, <1>3 DEF EmptySession, Clocks, session
  <1>4. CASE Tick
    BY <1>1, <1>4 DEF Tick, Clocks
  <1>5. CASE FeedFrame \/ LateFrame
    <2>1. /\ UNCHANGED <<sinceCheck, feedAge>>
          /\ \/ UNCHANGED session
             \/ age' = 0 /\ badFrames' \in {0, badFrames, badFrames + 1} /\ UNCHANGED sinceRestart
      <3>1. ASSUME NEW in, NEW e, OnVideoFrame(in, e)
            PROVE  /\ UNCHANGED sinceCheck
                   /\ \/ UNCHANGED session
                      \/ age' = 0 /\ badFrames' \in {0, badFrames, badFrames + 1} /\ UNCHANGED sinceRestart
        <4>1. AppendFrame(in, e) => /\ age' = 0 /\ UNCHANGED sinceRestart
                                    /\ badFrames' = 0 \/ badFrames' = badFrames \/ badFrames' = badFrames + 1
          BY Zenon DEF AppendFrame
        <4>2. UNCHANGED sinceCheck /\ (UNCHANGED session \/ AppendFrame(in, e))
          BY <3>1, Zenon DEF OnVideoFrame, consumer
        <4>3. QED BY <4>1, <4>2
      <3>2. UNCHANGED feedAge
        BY <1>5 DEF FeedFrame, LateFrame, camera
      <3>3. QED BY <1>5, <3>1, <3>2, Zenon DEF FeedFrame, LateFrame
    <2>2. QED BY <2>1 DEF Clocks, session
  <1>6. CASE RestartBegin
    <2>1. /\ UNCHANGED <<sinceCheck, feedAge>>
          /\ UNCHANGED session \/ (UNCHANGED age /\ badFrames' = 0 /\ sinceRestart' = 0)
      BY <1>6 DEF RestartBegin, StopLivestream, consumer, camera
    <2>2. QED BY <2>1 DEF Clocks, session
  <1>7. CASE EnsureBegin
    BY <1>3, <1>7 DEF EnsureBegin, StopLivestream, StopStream, consumer, camera
  <1>8. CASE EnsureStart
    BY <1>3, <1>8 DEF EnsureStart, StartStream, consumer, camera
  <1>9. CASE StationStarts
    BY <1>9 DEF StationStarts, Clocks, session, consumer
  <1>10. CASE StartDone \/ StartFails
    <2>1. /\ UNCHANGED <<sinceCheck, feedAge>>
          /\ \/ EmptySession
             \/ age' \in {0, StaleThreshold + 1} /\ UNCHANGED <<badFrames, sinceRestart>>
      BY <1>10 DEF StartDone, StartFails, StopStream, consumer, camera
    <2>2. QED BY <1>1, <2>1 DEF Clocks, EmptySession
  <1>11. CASE Poll \/ Connect
    BY <1>1, <1>11 DEF Poll, Connect, Clocks, session, camera
  <1>12. CASE PollFindsNone \/ Wake \/ FallSilent \/ UNCHANGED vars
    BY <1>12 DEF PollFindsNone, Wake, FallSilent, vars, Clocks, session, consumer, camera
  <1>13. QED BY <1>4, <1>5, <1>6, <1>7, <1>8, <1>9, <1>10, <1>11, <1>12 DEF Next

LEMMA FlagsKeep ==
    ASSUME Flags, [Next]_vars
    PROVE  Flags'
  <1>1. CASE UNCHANGED session
    BY <1>1, Zenon DEF Flags, session
  <1>2. CASE UNCHANGED <<everHadFrame, seenValidFrame>>
    BY <1>2, Zenon DEF Flags
  <1>3. CASE EmptySession
    BY <1>3 DEF Flags, EmptySession
  <1>4. ASSUME NEW in \in FrameInputs, NEW e, OnVideoFrame(in, e) PROVE Flags'
    <2>1. in.startCode \in BOOLEAN
      BY SessionAssumption DEF SessionAssumption
    <2>2. CASE AppendFrame(in, e)
      <3>1. everHadFrame' = TRUE
        BY <2>2 DEF AppendFrame
      <3>2. seenValidFrame' = seenValidFrame \/ seenValidFrame' = (seenValidFrame \/ in.startCode)
        BY <2>2, Zenon DEF AppendFrame
      <3>3. seenValidFrame' \in BOOLEAN
        BY <2>1, <3>2, Zenon DEF Flags
      <3>4. QED BY <3>1, <3>3, Zenon DEF Flags
    <2>3. QED BY <1>1, <1>4, <2>2, Zenon DEF OnVideoFrame
  <1>5. CASE FeedFrame \/ LateFrame
    BY <1>4, <1>5, Zenon DEF FeedFrame, LateFrame
  <1>6. CASE RestartBegin \/ StartFails \/ StartDone \/ Tick
    BY <1>1, <1>2, <1>3, <1>6, Zenon DEF RestartBegin, StartFails, StopStream, StartDone, Tick
  <1>7. CASE EnsureBegin \/ EnsureStart
    BY <1>1, <1>3, <1>7, Zenon DEF EnsureBegin, EnsureStart, StopStream, StartStream
  <1>8. CASE Poll \/ PollFindsNone \/ Connect \/ StationStarts \/ Wake \/ FallSilent \/ UNCHANGED vars
    BY <1>1, <1>8, Zenon DEF Poll, PollFindsNone, Connect, StationStarts, Wake, FallSilent, vars
  <1>9. QED BY <1>5, <1>6, <1>7, <1>8, Zenon DEF Next

LEMMA ControlsKeep ==
    ASSUME Controls, [Next]_vars
    PROVE  Controls'
  <1>. USE DEF Controls, MaxWaiting
  <1>1. CASE Poll
    BY <1>1 DEF Poll, camera
  <1>2. CASE RestartBegin
    BY <1>2 DEF RestartBegin, StopLivestream, camera
  <1>3. CASE EnsureBegin
    BY <1>3 DEF EnsureBegin, StopLivestream, camera
  <1>4. CASE StationStarts \/ Wake \/ FallSilent
    BY <1>4 DEF StationStarts, Wake, FallSilent, locking
  <1>5. CASE StartDone \/ StartFails
    BY <1>5 DEF StartDone, StartFails, camera
  <1>6. CASE PollFindsNone \/ Connect \/ EnsureStart \/ FeedFrame \/ LateFrame \/ Tick \/ UNCHANGED vars
    BY <1>6 DEF PollFindsNone, Connect, EnsureStart, FeedFrame, LateFrame, OnVideoFrame, Tick, vars,
                locking, camera
  <1>7. QED BY <1>1, <1>2, <1>3, <1>4, <1>5, <1>6 DEF Next

TypesInv == SessionInv /\ ConsumerInv /\ Clocks /\ Flags /\ Controls

LEMMA TypesInit ==
    ASSUME Init
    PROVE  TypesInv
  <1>1. Clocks
    BY SessionAssumption DEF Init, Clocks, SessionAssumption
  <1>2. Flags
    BY Zenon DEF Init, Flags
  <1>4. Controls
    BY DEF Init, Controls, MaxWaiting
  <1>3. QED BY <1>1, <1>2, <1>4, InitInv, ConsumerInit, Zenon DEF TypesInv

LEMMA TypesKeep ==
    ASSUME TypesInv, [Next]_vars
    PROVE  TypesInv'
  BY NextInv, ConsumerKeeps, ClocksKeep, FlagsKeep, ControlsKeep, Zenon DEF TypesInv

\* The session, the consumer, the lock and the feed have the values the code
\* gives them for every size of the buffer and every input; the position of the
\* last keyframe is one (GetFramesSince indexes the buffer with it).
THEOREM TypeCorrect == Spec => []TypeOK
  <1>1. TypesInv => TypeOK
    <2>. SUFFICES ASSUME TypesInv PROVE TypeOK
      OBVIOUS
    <2>1. /\ streamIDCounter \in Nat /\ sid \in {0, streamIDCounter}
          /\ {lastFrameID, boundTo} \subseteq Nat
          /\ remapper \in [base : Int, haveBase : BOOLEAN, last : Int, haveLast : BOOLEAN]
      BY DEF TypesInv, ConsumerInv, Remapper
    <2>2. /\ buffer \in Seq(Frame) /\ nextFrameID \in Nat
          /\ {lastRawPTS, lastPTS, ptsOffset} \subseteq Int
          /\ {epoch, late} \subseteq Nat
      BY DEF TypesInv, SessionInv, CameraType, FramesInv, SessionType
    <2>3. lastKeyFrameIdx \in Nat
      <3>1. lastKeyFrameIdx \in 0 .. Len(buffer)
        BY <2>2, LastKeyIs DEF TypesInv, SessionInv, FramesInv, BufferConsistent
      <3>2. QED BY <2>2, <3>1, LenProperties
    <2>4. age \in Nat /\ {badFrames, sinceRestart, sinceCheck, feedAge} \subseteq Nat
      BY DEF TypesInv, Clocks
    <2>5. {badFrames, sinceRestart, sinceCheck, feedAge, epoch, late, lastFrameID, boundTo} \subseteq Nat
      BY <2>1, <2>2, <2>4
    <2>6. {everHadFrame, seenValidFrame, hasPTS} \subseteq BOOLEAN
      BY Zenon DEF TypesInv, Flags, SessionInv, FramesInv, SessionType
    <2>7. QED BY <2>1, <2>2, <2>3, <2>4, <2>5, <2>6, Zenon DEF TypeOK, TypesInv, Controls
  <1>2. Init => TypesInv
    BY TypesInit
  <1>3. TypesInv /\ [Next]_vars => TypesInv'
    BY TypesKeep
  <1>4. QED BY <1>1, <1>2, <1>3, PTL DEF Spec

-----------------------------------------------------------------------------
(* What the consumer can decode.                                           *)

\* Whose frames may be there: those of the encoder session that runs, and late ones.
Running == {0} \cup {e \in {epoch} : feed # "off"}

\* All frames of the buffer are such, while no encoder session runs only late ones.
OneEncoder == \A i \in 1 .. Len(buffer) : buffer[i].epoch \in Running

\* Where the consumer is: the last frame written to it was one of the session it
\* names; if it is still in the buffer it is late or of the running encoder session; and
\* it is the frame the consumer goes on from.
Position ==
    LET w == wire[Len(wire)]
    IN  /\ wire # <<>> =>
              /\ w.sid \in 1 .. streamIDCounter
              /\ w.sid = sid => /\ w.id <= nextFrameID
                                /\ w.id > nextFrameID - Len(buffer) => w.epoch \in Running
        /\ boundTo # 0 /\ lastFrameID # 0 =>
              wire # <<>> /\ w.sid = boundTo /\ w.id = lastFrameID

DecodeInv == OneEncoder /\ Position /\ Decodable

\* What AppendFrame leaves of a buffer and a new frame: the newest of them.
LEMMA StoreSuffix ==
    ASSUME buffer \in Seq(Frame), NEW f \in Frame, Store(f)
    PROVE  /\ buffer' \in Seq(Frame) /\ Len(buffer') <= Len(buffer) + 1
           /\ \A i \in 1 .. Len(buffer') :
                 buffer'[i] = f \/ \E j \in 1 .. Len(buffer) : buffer'[i] = buffer[j]
  <1>. DEFINE b == Append(buffer, f)
              t == FitBytes(b)
              u == FitCount(t)
  <1>1. /\ Len(buffer) \in Nat /\ b \in Seq(Frame) /\ Len(b) = Len(buffer) + 1
        /\ \A i \in 1 .. Len(buffer) : b[i] = buffer[i]
        /\ b[Len(buffer) + 1] = f
    BY AppendProperties, LenProperties
  <1>2. buffer' = u
    BY DEF Store
  <1>. HIDE DEF b
  <1>3. PICK d \in 0 .. Len(b) : t = SubSeq(b, d + 1, Len(b))
    BY <1>1, FitBytesSuffix DEF IsSuffix
  <1>4. /\ t \in Seq(Frame) /\ Len(t) = Len(b) - d
        /\ \A i \in 1 .. Len(b) - d : t[i] = b[i + d]
    BY <1>1, <1>3, SuffixElements
  <1>. HIDE DEF t
  <1>5. PICK e \in 0 .. Len(t) : u = SubSeq(t, e + 1, Len(t))
    BY <1>4, FitCountSuffix DEF IsSuffix
  <1>6. /\ u \in Seq(Frame) /\ Len(u) = Len(t) - e
        /\ \A i \in 1 .. Len(t) - e : u[i] = t[i + e]
    BY <1>4, <1>5, SuffixElements
  <1>. HIDE DEF u
  <1>7. Len(u) <= Len(buffer) + 1
    BY <1>1, <1>4, <1>6
  <1>8. ASSUME NEW i \in 1 .. Len(u)
        PROVE  u[i] = f \/ \E j \in 1 .. Len(buffer) : u[i] = buffer[j]
    <2>1. i + e \in 1 .. Len(b) - d /\ (i + e) + d \in 1 .. Len(buffer) + 1
      BY <1>1, <1>4, <1>6
    <2>2. u[i] = b[(i + e) + d]
      BY <1>4, <1>6, <2>1
    <2>3. QED BY <1>1, <2>1, <2>2
  <1>9. QED BY <1>2, <1>6, <1>7, <1>8

\* A frame of encoder session e, as far as the buffer is concerned.
LEMMA AppendFrameIs ==
    ASSUME FramesInv, NEW in \in FrameInputs, NEW e \in Nat, AppendFrame(in, e)
    PROVE  /\ UNCHANGED identity
           /\ \/ UNCHANGED frames
              \/ /\ nextFrameID' = nextFrameID + 1
                 /\ buffer' \in Seq(Frame) /\ Len(buffer') <= Len(buffer) + 1
                 /\ \A i \in 1 .. Len(buffer') :
                       buffer'[i].epoch = e \/ \E j \in 1 .. Len(buffer) : buffer'[i] = buffer[j]
  <1>1. UNCHANGED identity
    BY DEF AppendFrame
  <1>2. CASE UNCHANGED frames
    BY <1>1, <1>2
  <1>3. CASE ~UNCHANGED frames
    <2>. DEFINE f == [id |-> nextFrameID + 1, key |-> in.key, bytes |-> in.bytes,
                      pts |-> lastPTS', epoch |-> e]
    <2>1. /\ \E step \in Steps : RebasePTS(in.raw, step)
          /\ Store(f)
      BY <1>3 DEF AppendFrame
    <2>2. in.key \in BOOLEAN /\ in.bytes \in Nat /\ in.raw \in Nat
      BY SessionAssumption DEF SessionAssumption
    <2>3. lastPTS' \in Int
      BY <2>1, <2>2, RebaseIncreases
    <2>4. f \in Frame /\ f.epoch = e /\ f.id = nextFrameID + 1
      BY <2>2, <2>3 DEF Frame, FramesInv, SessionType
    <2>5. nextFrameID' = f.id
      BY <2>1 DEF Store
    <2>. HIDE DEF f
    <2>6. buffer \in Seq(Frame)
      BY DEF FramesInv, SessionType
    <2>7. /\ buffer' \in Seq(Frame) /\ Len(buffer') <= Len(buffer) + 1
          /\ \A i \in 1 .. Len(buffer') :
                buffer'[i] = f \/ \E j \in 1 .. Len(buffer) : buffer'[i] = buffer[j]
      BY <2>1, <2>4, <2>6, StoreSuffix
    <2>8. QED BY <1>1, <2>4, <2>5, <2>7
  <1>4. QED BY <1>2, <1>3

\* The frame a client delivers, late or not.
LEMMA FrameIs ==
    ASSUME SessionInv, FeedFrame \/ LateFrame
    PROVE  /\ UNCHANGED <<consumer, feed, epoch, identity>> /\ Running' = Running
           /\ \/ UNCHANGED frames
              \/ /\ nextFrameID' = nextFrameID + 1
                 /\ buffer' \in Seq(Frame) /\ Len(buffer') <= Len(buffer) + 1
                 /\ \A i \in 1 .. Len(buffer') :
                       buffer'[i].epoch \in Running \/ \E j \in 1 .. Len(buffer) : buffer'[i] = buffer[j]
  <1>1. /\ UNCHANGED <<feed, epoch>> /\ epoch \in Nat
        /\ FeedFrame => feed = "on"
    BY DEF FeedFrame, LateFrame, camera, SessionInv, CameraType
  <1>2. PICK in \in FrameInputs, e \in Nat \cap Running : OnVideoFrame(in, e)
    BY <1>1 DEF FeedFrame, LateFrame, Running
  <1>3. UNCHANGED consumer /\ (UNCHANGED session \/ AppendFrame(in, e))
    BY <1>2 DEF OnVideoFrame
  <1>4. /\ UNCHANGED identity
        /\ \/ UNCHANGED frames
           \/ /\ nextFrameID' = nextFrameID + 1
              /\ buffer' \in Seq(Frame) /\ Len(buffer') <= Len(buffer) + 1
              /\ \A i \in 1 .. Len(buffer') :
                    buffer'[i].epoch = e \/ \E j \in 1 .. Len(buffer) : buffer'[i] = buffer[j]
    <2>1. CASE UNCHANGED session
      BY <2>1 DEF session, identity
    <2>2. CASE AppendFrame(in, e)
      BY <2>2, AppendFrameIs DEF SessionInv
    <2>3. QED BY <1>3, <2>1, <2>2
  <1>5. Running' = Running
    BY <1>1 DEF Running
  <1>6. QED BY <1>1, <1>3, <1>4, <1>5

LEMMA OneEncoderKeeps ==
    ASSUME SessionInv, OneEncoder, [Next]_vars
    PROVE  OneEncoder'
  <1>1. buffer' = <<>> => OneEncoder'
    BY DEF OneEncoder
  <1>2. CASE UNCHANGED <<buffer, epoch>> /\ (feed' = feed \/ (feed # "off" /\ feed' # "off"))
    BY <1>2 DEF OneEncoder, Running
  <1>3. CASE FeedFrame \/ LateFrame
    BY <1>3, FrameIs DEF OneEncoder, frames
  <1>4. CASE RestartBegin
    BY <1>1, <1>2, <1>4 DEF RestartBegin, session, frames, camera
  <1>5. CASE EnsureBegin
    BY <1>1, <1>2, <1>5 DEF EnsureBegin, StopStream, EmptySession, session, frames, camera
  <1>6. CASE EnsureStart
    BY <1>1, <1>6 DEF EnsureStart, StartStream, EmptySession
  <1>7. CASE StationStarts
    BY <1>7 DEF StationStarts, OneEncoder, Running, session, frames
  <1>8. CASE StartDone \/ StartFails
    BY <1>1, <1>2, <1>8 DEF StartDone, StartFails, StopStream, EmptySession, frames, camera
  <1>9. CASE Poll \/ PollFindsNone \/ Connect \/ Wake \/ FallSilent \/ Tick \/ UNCHANGED vars
    BY <1>2, <1>9 DEF Poll, PollFindsNone, Connect, Wake, FallSilent, Tick, vars, session, frames, camera
  <1>10. QED BY <1>3, <1>4, <1>5, <1>6, <1>7, <1>8, <1>9 DEF Next

\* Frames leave the buffer of a session only at its front, and what was of the
\* running encoder session or late remains so, or is gone.
WindowStep ==
    sid' = sid /\ sid # 0 =>
       /\ nextFrameID' >= nextFrameID
       /\ nextFrameID' - Len(buffer') >= nextFrameID - Len(buffer)
       /\ Running \subseteq Running' \/ buffer' = <<>>

LEMMA WindowSteps ==
    ASSUME SessionInv, [Next]_vars
    PROVE  WindowStep
  <1>1. nextFrameID \in Nat /\ buffer \in Seq(Frame) /\ Len(buffer) \in Nat
    BY LenProperties DEF SessionInv, FramesInv, SessionType
  <1>2. CASE /\ UNCHANGED <<buffer, nextFrameID>>
             /\ feed = "off" \/ (epoch' = epoch /\ feed' # "off")
    BY <1>1, <1>2 DEF WindowStep, Running
  <1>3. CASE FeedFrame \/ LateFrame
    <2>1. /\ Running' = Running
          /\ \/ UNCHANGED <<buffer, nextFrameID>>
             \/ /\ nextFrameID' = nextFrameID + 1
                /\ buffer' \in Seq(Frame) /\ Len(buffer') <= Len(buffer) + 1
      BY <1>3, FrameIs DEF frames
    <2>2. buffer' \in Seq(Frame) => Len(buffer') \in Nat
      BY LenProperties
    <2>3. QED BY <1>1, <2>1, <2>2 DEF WindowStep
  <1>4. CASE RestartBegin
    <2>1. \/ UNCHANGED <<buffer, nextFrameID, epoch, feed>>
          \/ buffer' = <<>> /\ nextFrameID' = nextFrameID
      BY <1>4 DEF RestartBegin, session, frames, camera
    <2>2. <<>> = buffer' => Len(buffer') = 0
      OBVIOUS
    <2>3. QED BY <1>1, <1>2, <2>1, <2>2 DEF WindowStep
  <1>5. CASE EnsureBegin \/ EnsureStart
    BY <1>5 DEF EnsureBegin, EnsureStart, StopStream, StartStream, WindowStep
  <1>6. CASE StationStarts
    BY <1>2, <1>6 DEF StationStarts, session, frames
  <1>7. CASE StartDone \/ StartFails
    BY <1>2, <1>7 DEF StartDone, StartFails, StopStream, WindowStep, frames, camera
  <1>8. CASE Poll \/ PollFindsNone \/ Connect \/ Wake \/ FallSilent \/ Tick \/ UNCHANGED vars
    BY <1>2, <1>8 DEF Poll, PollFindsNone, Connect, Wake, FallSilent, Tick, vars, session, frames, camera
  <1>9. QED BY <1>3, <1>4, <1>5, <1>6, <1>7, <1>8 DEF Next

\* What was written before stays written, and the position stays right while
\* the session goes on under the consumer or is replaced.
LEMMA PositionKeeps ==
    ASSUME SessionInv, ConsumerInv, Position, [Next]_vars, ~Poll, ~Connect
    PROVE  Position'
  <1>. DEFINE w == wire[Len(wire)]
  <1>1. /\ lastFrameID' = lastFrameID /\ wire' = wire
        /\ boundTo' \in {boundTo, 0}
    BY OthersDoNotWrite
  <1>2. /\ IdentityStep /\ WindowStep
    BY IdentitySteps, WindowSteps
  <1>3. /\ nextFrameID \in Nat /\ Len(buffer) \in Nat
        /\ nextFrameID' \in Nat /\ Len(buffer') \in Nat
    BY NextInv, LenProperties DEF SessionInv, FramesInv, SessionType
  <1>4. streamIDCounter \in Nat /\ sid \in {0, streamIDCounter}
    BY DEF ConsumerInv
  <1>5. boundTo' # 0 /\ lastFrameID' # 0 => wire' # <<>> /\ w.sid = boundTo' /\ w.id = lastFrameID'
    BY <1>1 DEF Position
  <1>6. ASSUME wire # <<>>
        PROVE  /\ w.sid \in 1 .. streamIDCounter'
               /\ w.sid = sid' => /\ w.id <= nextFrameID'
                                  /\ w.id > nextFrameID' - Len(buffer') => w.epoch \in Running'
    <2>1. w.id \in Nat
      <3>1. wire \in Seq(Delivered)
        BY DEF ConsumerInv
      <3>2. Len(wire) \in 1 .. Len(wire)
        BY <1>6, <3>1, LenProperties, EmptySeq
      <3>3. w \in Delivered
        BY <3>1, <3>2, ElementOfSeq
      <3>. HIDE DEF w
      <3>4. QED BY <3>3 DEF Delivered
    <2>2. /\ w.sid \in 1 .. streamIDCounter
          /\ w.sid = sid => /\ w.id <= nextFrameID
                            /\ w.id > nextFrameID - Len(buffer) => w.epoch \in Running
      BY <1>6 DEF Position
    <2>. HIDE DEF w
    <2>3. w.sid \in 1 .. streamIDCounter'
      BY <1>2, <1>4, <2>2 DEF IdentityStep
    <2>4. ASSUME w.sid = sid'
          PROVE  /\ w.id <= nextFrameID'
                 /\ w.id > nextFrameID' - Len(buffer') => w.epoch \in Running'
      <3>1. sid' = sid /\ sid # 0
        BY <1>2, <1>4, <2>2, <2>4 DEF IdentityStep
      <3>2. /\ nextFrameID' >= nextFrameID
            /\ nextFrameID' - Len(buffer') >= nextFrameID - Len(buffer)
            /\ Running \subseteq Running' \/ buffer' = <<>>
        BY <1>2, <3>1 DEF WindowStep
      <3>3. w.id <= nextFrameID /\ (w.id > nextFrameID - Len(buffer) => w.epoch \in Running)
        BY <2>2, <2>4, <3>1
      <3>4. buffer' = <<>> => Len(buffer') = 0
        OBVIOUS
      <3>5. QED BY <1>3, <2>1, <3>2, <3>3, <3>4
    <2>5. QED BY <2>3, <2>4
  <1>7. QED BY <1>1, <1>5, <1>6 DEF Position

LEMMA DecodeInit ==
    ASSUME Init
    PROVE  DecodeInv
  <1>1. /\ buffer = <<>> /\ wire = <<>> /\ lastFrameID = 0
    BY DEF Init
  <1>2. Len(buffer) = 0 /\ Len(wire) = 0
    BY <1>1
  <1>3. OneEncoder /\ Position /\ Decodable
    BY <1>1, <1>2 DEF OneEncoder, Position, Decodable
  <1>4. QED BY <1>3 DEF DecodeInv

LEMMA PollDecodes ==
    ASSUME SessionInv, ConsumerInv, DecodeInv, Poll
    PROVE  Position' /\ Decodable'
  <1>1. PICK since, batch, r : PollReads(since, batch, r)
    BY PollIs
  <1>. DEFINE after == RemapBatch(r, batch)
              before == IF wire = <<>> THEN 0 ELSE 1
              w == wire[Len(wire)]
              f(k) == wire'[before + k]
  <1>2. /\ UNCHANGED <<streamIDCounter, sid, nextFrameID, buffer, epoch, feed>>
        /\ Running' = Running
        /\ sid # 0 /\ sid \in 1 .. streamIDCounter
    BY DEF Poll, session, frames, camera, ConsumerInv, Running
  <1>3. /\ since \in Nat
        /\ since = 0 \/ (since = lastFrameID /\ boundTo = sid)
        /\ Continues(batch, since)
        /\ boundTo' = sid /\ lastFrameID' = NextSince(since)
        /\ batch = <<>> => wire' = wire
        /\ batch # <<>> => Extends(wire', batch, after)
    BY <1>1 DEF PollReads
  <1>. HIDE DEF after
  <1>4. CASE batch = <<>>
    <2>1. wire' = wire /\ lastFrameID' = since
      BY <1>3, <1>4 DEF Continues
    <2>2. Decodable'
      BY <2>1 DEF DecodeInv, Decodable
    <2>3. Position'
      BY <1>2, <1>3, <2>1 DEF DecodeInv, Position
    <2>4. QED BY <2>2, <2>3
  <1>5. CASE batch # <<>>
    <2>1. /\ batch \in Seq(Frame)
          /\ lastFrameID' = nextFrameID
          /\ batch[Len(batch)].id = nextFrameID
          /\ \A k \in 1 .. Len(batch) : \E i \in 1 .. Len(buffer) : batch[k] = buffer[i]
          /\ \A k \in 2 .. Len(batch) : batch[k].id = batch[k - 1].id + 1
          /\ \/ batch[1].key
             \/ since # 0 /\ batch[1].id = since + 1 /\ since > nextFrameID - Len(buffer)
      BY <1>3, <1>5 DEF Continues
    <2>2. Len(batch) \in Nat /\ Len(batch) >= 1
      BY <1>5, <2>1, LenProperties, EmptySeq
    <2>3. /\ before \in {0, 1} /\ (before = 0 => wire = <<>>) /\ (before = 1 => wire # <<>>)
          /\ Len(wire') = before + Len(batch)
          /\ before = 1 => wire'[1] = w
      BY <1>3, <1>5 DEF Extends
    <2>4. ASSUME NEW k \in 1 .. Len(batch)
          PROVE  /\ f(k).id = batch[k].id /\ f(k).key = batch[k].key /\ f(k).sid = sid
                 /\ f(k).epoch \in Running
      <3>1. f(k) = [id |-> batch[k].id, key |-> batch[k].key, epoch |-> batch[k].epoch,
                    sid |-> sid, pts |-> batch[k].pts, out |-> after[k].last]
        BY <1>3, <1>5 DEF Extends
      <3>2. batch[k].epoch \in Running
        BY <2>1 DEF DecodeInv, OneEncoder
      <3>3. QED BY <3>1, <3>2
    <2>5. ASSUME since # 0, since > nextFrameID - Len(buffer)
          PROVE  before = 1 /\ w.sid = sid /\ w.id = since /\ w.epoch \in Running
      <3>1. wire # <<>> /\ w.sid = sid /\ w.id = since
        BY <1>2, <1>3, <2>5 DEF DecodeInv, Position
      <3>2. w.epoch \in Running
        BY <2>5, <3>1 DEF DecodeInv, Position
      <3>3. QED BY <2>3, <3>1, <3>2
    <2>. HIDE DEF before, w
    <2>6. /\ before + 1 \in 1 .. Len(wire')
          /\ Len(wire') = before + Len(batch) /\ Len(batch) \in 1 .. Len(batch)
          /\ wire' # <<>>
      <3>1. Len(wire') >= 1
        BY <2>2, <2>3
      <3>2. QED BY <2>2, <2>3, <3>1
    <2>7. Position'
      <3>1. /\ wire'[Len(wire')].sid = sid /\ wire'[Len(wire')].id = nextFrameID
            /\ wire'[Len(wire')].epoch \in Running
        BY <2>1, <2>4, <2>6
      <3>2. nextFrameID \in Nat
        BY DEF SessionInv, FramesInv, SessionType
      <3>3. QED BY <1>2, <1>3, <2>1, <2>6, <3>1, <3>2 DEF Position
    <2>8. ASSUME NEW k \in 2 .. Len(wire')
          PROVE  \/ wire'[k].key
                 \/ /\ Follows(wire'[k], wire'[k - 1])
                    /\ {wire'[k].epoch, wire'[k - 1].epoch} \subseteq Running
      <3>1. CASE k - before = 1
        <4>1. before = 1 /\ k = before + 1 /\ k - 1 = 1
          BY <2>3, <3>1
        <4>2. /\ wire'[k].key = batch[1].key /\ wire'[k].id = batch[1].id
              /\ wire'[k].sid = sid /\ wire'[k].epoch \in Running
          BY <2>2, <2>4, <4>1
        <4>3. wire'[k - 1] = w
          BY <2>3, <4>1
        <4>4. QED BY <2>1, <2>5, <4>2, <4>3 DEF Follows
      <3>2. CASE k - before # 1
        <4>. DEFINE j == k - before
        <4>1. /\ j \in 2 .. Len(batch) /\ j \in 1 .. Len(batch) /\ j - 1 \in 1 .. Len(batch)
              /\ before + j = k /\ before + (j - 1) = k - 1
          BY <2>2, <2>3, <3>2
        <4>. HIDE DEF j
        <4>2. /\ wire'[k].id = batch[j].id /\ wire'[k].sid = sid /\ wire'[k].epoch \in Running
              /\ wire'[k - 1].id = batch[j - 1].id /\ wire'[k - 1].sid = sid
              /\ wire'[k - 1].epoch \in Running
          BY <2>4, <4>1
        <4>3. QED BY <2>1, <4>1, <4>2 DEF Follows
      <3>3. QED BY <3>1, <3>2
    <2>9. ASSUME wire' # <<>>, ~wire'[1].key PROVE Len(wire') > 1
      <3>1. CASE before = 1
        BY <2>2, <2>3, <3>1
      <3>2. CASE before = 0
        <4>1. wire'[1].key = batch[1].key
          BY <2>2, <2>4, <3>2
        <4>2. QED BY <2>1, <2>5, <2>9, <3>2, <4>1
      <3>3. QED BY <2>3, <3>1, <3>2
    <2>10. Decodable'
      <3>1. \A d, e \in Running : 0 \in {d, e} \/ d = e
        BY DEF Running
      <3>2. QED BY <2>8, <2>9, <3>1 DEF Decodable
    <2>11. QED BY <2>7, <2>10
  <1>6. QED BY <1>4, <1>5

LEMMA DecodeKeeps ==
    ASSUME SessionInv, ConsumerInv, DecodeInv, [Next]_vars
    PROVE  DecodeInv'
  <1>1. OneEncoder'
    BY OneEncoderKeeps DEF DecodeInv
  <1>2. CASE Poll
    BY <1>1, <1>2, PollDecodes DEF DecodeInv
  <1>3. CASE Connect
    <2>1. wire' = <<>> /\ Len(wire') = 0 /\ lastFrameID' = 0
      BY <1>3 DEF Connect
    <2>2. Position' /\ Decodable'
      BY <2>1 DEF Position, Decodable
    <2>3. QED BY <1>1, <2>2 DEF DecodeInv
  <1>4. CASE ~Poll /\ ~Connect
    <2>1. wire' = wire
      BY <1>4, OthersDoNotWrite
    <2>2. Decodable'
      BY <2>1 DEF DecodeInv, Decodable
    <2>3. QED BY <1>1, <1>4, <2>2, PositionKeeps DEF DecodeInv
  <1>5. QED BY <1>2, <1>3, <1>4

\* A consumer receives keyframes, and frames that follow directly what it has of
\* the same encoder session, whatever is trimmed, restarted or replaced between
\* its turns (GetFramesSince, ClearBuffer, and the re-binding of
\* serveStreamFrames). Closed P2P clients may deliver any number of frames late:
\* only such a frame, and the one behind it, may break the rule.
THEOREM ConsumerCanDecode == Spec => []Decodable
  <1>1. Init => SessionInv /\ ConsumerInv /\ DecodeInv
    BY InitInv, ConsumerInit, DecodeInit
  <1>2. SessionInv /\ ConsumerInv /\ DecodeInv /\ [Next]_vars
          => SessionInv' /\ ConsumerInv' /\ DecodeInv'
    BY NextInv, ConsumerKeeps, DecodeKeeps
  <1>3. DecodeInv => Decodable
    BY DEF DecodeInv
  <1>4. QED BY <1>1, <1>2, <1>3, PTL DEF Spec

-----------------------------------------------------------------------------
(* The camera that is still waking.                                        *)

\* A session whose camera wakes has been silent for no longer than its feed is
\* old, once the start is done, and the bad frames it has counted or may yet count
\* are late ones of the feed before.
WarmUpInv ==
    /\ holder = "none" /\ feed = "waking" => age <= feedAge
    /\ feed \in {"off", "waking"} => badFrames + late <= MaxLate

LEMMA WarmUpInit ==
    ASSUME Init
    PROVE  WarmUpInv
  BY SessionAssumption DEF Init, WarmUpInv, SessionAssumption

\* The clock of the session stops no later than that of the feed.
LEMMA TickKeepsOrder ==
    ASSUME Clocks, age <= feedAge, Tick
    PROVE  age' <= feedAge'
  <1>1. /\ WarmUpStaleThreshold \in Nat /\ WakeTime \in Nat
    BY SessionAssumption DEF SessionAssumption
  <1>2. /\ age' = IF age <= WarmUpStaleThreshold THEN age + 1 ELSE age
        /\ feedAge' = IF feedAge <= WarmUpStaleThreshold + WakeTime THEN feedAge + 1 ELSE feedAge
    BY DEF Tick, Older, MaxAge
  <1>3. age \in Nat /\ feedAge \in Nat
    BY DEF Clocks
  <1>4. QED BY <1>1, <1>2, <1>3

LEMMA WarmUpKeeps ==
    ASSUME Clocks, CameraType, WarmUpInv, [Next]_vars
    PROVE  WarmUpInv'
  <1>1. /\ age \in Nat /\ feedAge \in Nat /\ badFrames \in Nat
        /\ late \in Nat /\ MaxLate \in Nat
    BY SessionAssumption DEF Clocks, CameraType, SessionAssumption
  <1>2. StopLivestream => /\ feed = "off" => late' = late
                          /\ feed # "off" => late' = MaxLate
    BY DEF StopLivestream
  <1>3. CASE Tick
    <2>1. /\ UNCHANGED <<holder, feed, badFrames, late>>
      BY <1>3 DEF Tick, locking
    <2>2. QED BY <1>3, <2>1, TickKeepsOrder DEF WarmUpInv
  <1>4. CASE FeedFrame
    <2>1. feed = "on" /\ feed' = feed
      BY <1>4 DEF FeedFrame, camera
    <2>2. QED BY <2>1 DEF WarmUpInv
  <1>5. CASE LateFrame
    <2>1. /\ late > 0 /\ late' = late - 1 /\ UNCHANGED <<holder, feed, feedAge>>
      BY <1>5 DEF LateFrame, OnVideoFrame, locking
    <2>2. UNCHANGED <<age, badFrames>> \/ (age' = 0 /\ badFrames' \in {0, badFrames, badFrames + 1})
      <3>1. ASSUME NEW in, NEW e, OnVideoFrame(in, e)
            PROVE  UNCHANGED <<age, badFrames>> \/ (age' = 0 /\ badFrames' \in {0, badFrames, badFrames + 1})
        <4>1. AppendFrame(in, e) => /\ age' = 0
                                    /\ badFrames' = 0 \/ badFrames' = badFrames \/ badFrames' = badFrames + 1
          BY Zenon DEF AppendFrame
        <4>2. UNCHANGED <<age, badFrames>> \/ AppendFrame(in, e)
          BY <3>1 DEF OnVideoFrame, session
        <4>3. QED BY <4>1, <4>2
      <3>2. QED BY <1>5, <3>1 DEF LateFrame
    <2>3. QED BY <1>1, <2>1, <2>2 DEF WarmUpInv
  <1>6. CASE RestartBegin
    <2>1. CASE UNCHANGED <<session, holder, camera>>
      BY <2>1 DEF WarmUpInv, session, camera
    <2>2. CASE ~UNCHANGED <<session, holder, camera>>
      <3>1. holder' = "restart" /\ badFrames' = 0 /\ StopLivestream
        BY <1>6, <2>2 DEF RestartBegin
      <3>2. QED BY <1>1, <1>2, <3>1 DEF WarmUpInv
    <2>3. QED BY <2>1, <2>2
  <1>7. CASE EnsureBegin
    <2>1. CASE sid = 0
      BY <1>7, <2>1 DEF EnsureBegin, WarmUpInv, session, camera
    <2>2. CASE sid # 0
      <3>1. holder' = "ensure" /\ badFrames' = 0 /\ StopLivestream
        BY <1>7, <2>2 DEF EnsureBegin, StopStream, EmptySession
      <3>2. QED BY <1>1, <1>2, <3>1 DEF WarmUpInv
    <2>3. QED BY <2>1, <2>2
  <1>8. CASE EnsureStart
    BY <1>1, <1>8 DEF EnsureStart, StartStream, EmptySession, WarmUpInv, locking, camera
  <1>9. CASE StationStarts
    BY <1>9 DEF StationStarts, WarmUpInv, session, locking
  <1>10. CASE StartDone
    BY <1>1, <1>10 DEF StartDone, WarmUpInv, camera
  <1>11. CASE StartFails
    BY <1>1, <1>11 DEF StartFails, StopStream, EmptySession, WarmUpInv, camera
  <1>12. CASE Wake \/ FallSilent
    BY <1>12 DEF Wake, FallSilent, WarmUpInv, session, locking
  <1>13. CASE Poll \/ PollFindsNone \/ Connect \/ UNCHANGED vars
    BY <1>13 DEF Poll, PollFindsNone, Connect, vars, WarmUpInv, session, locking, camera
  <1>14. QED BY <1>3, <1>4, <1>5, <1>6, <1>7, <1>8, <1>9, <1>10, <1>11, <1>12, <1>13 DEF Next

\* A camera that is still waking is torn down only by those who find its session
\* dead, and who count from the start of the feed at the earliest (IsStale,
\* NeedsRestart, ResetLastUpdate behind StartLivestream), provided that the frames a
\* closed client may still deliver are not already too many bad ones.
THEOREM WakingCameraKept ==
    ASSUME MaxLate < badFrameRestartThreshold
    PROVE  Spec => WakingKept
  <1>1. Init => Clocks /\ CameraType /\ WarmUpInv
    BY TypesInit, WarmUpInit DEF TypesInv, SessionInv
  <1>2. Clocks /\ CameraType /\ WarmUpInv /\ [Next]_vars
          => Clocks' /\ CameraType' /\ WarmUpInv'
    BY ClocksKeep, CameraKeeps, WarmUpKeeps
  <1>3. ASSUME Clocks, CameraType, WarmUpInv, [Next]_vars, feed = "waking", feed' = "off"
        PROVE  feedAge > IF everHadFrame THEN StaleThreshold ELSE WarmUpStaleThreshold
    <2>1. /\ age \in Nat /\ feedAge \in Nat /\ badFrames \in Nat
          /\ badFrameRestartThreshold \in Nat /\ StaleThreshold \in Nat /\ WarmUpStaleThreshold \in Nat
          /\ late \in Nat /\ MaxLate \in Nat
      BY <1>3, SessionAssumption DEF Clocks, CameraType, SessionAssumption
    <2>2. holder = "none" /\ (IsStale \/ NeedsRestart)
      <3>1. RestartBegin \/ EnsureBegin
        BY <1>3 DEF Next, Poll, PollFindsNone, Connect, EnsureStart, StationStarts, StartDone,
                    StartFails, FeedFrame, LateFrame, Wake, FallSilent, Tick, vars, camera
      <3>2. RestartBegin => holder = "none" /\ NeedsRestart
        BY <1>3 DEF RestartBegin, camera
      <3>3. EnsureBegin => holder = "none" /\ IsStale
        BY <1>3 DEF EnsureBegin, camera
      <3>4. QED BY <3>1, <3>2, <3>3
    <2>3. age <= feedAge /\ badFrames <= MaxLate
      BY <1>3, <2>1, <2>2 DEF WarmUpInv
    <2>4. IsStale
      BY <2>1, <2>2, <2>3 DEF NeedsRestart
    <2>5. QED BY <2>1, <2>3, <2>4 DEF IsStale
  <1>4. Clocks /\ CameraType /\ WarmUpInv /\ [Next]_vars
          => [feed = "waking" /\ feed' = "off"
                => feedAge > IF everHadFrame THEN StaleThreshold ELSE WarmUpStaleThreshold]_vars
    BY <1>3
  <1>5. QED BY <1>1, <1>2, <1>4, PTL DEF Spec, WakingKept
=============================================================================
