----------------------------- MODULE Relay_proofs -----------------------------
(***************************************************************************)
(* The relay keeps its promises for every set of consumers: it implements  *)
(* Broadcast, and the process does not end before the stop request.        *)
(***************************************************************************)
EXTENDS Relay, TLAPS

\* A pipe is registered as long as its handler has not closed it, and no longer
\* than its handler runs.
Registered ==
    \A c \in Consumers : /\ handler[c] \in {"read", "write", "close"} => c \in Range(writers)
                         /\ handler[c] \in {"off", "add"} => c \notin Range(writers)

\* The mutex keeps the indices of Write valid: what it found broken is still there,
\* and its handler waits to remove it.
Indexed ==
    /\ ~Locked => at = 1 /\ broken = {}
    /\ \A i \in broken : handler[writers[i]] = "remove"

\* The process ends after a call of hb.close, which returns after its function.
StopsFirst ==
    /\ once = "over" => stopped
    /\ \A p \in Closers : closer[p] = "back" => once = "over"
    /\ process = "ended" => \E p \in Closers : closer[p] = "back"

RelayInv == TypeOK /\ Registered /\ Indexed /\ StopsFirst

-----------------------------------------------------------------------------
\* Removing an element keeps the order of the others.
LEMMA WithoutKeeps ==
    ASSUME NEW s \in Seq(Consumers), IsInjective(s), NEW i \in DOMAIN s
    PROVE  /\ Without(s, i) \in Seq(Consumers)
           /\ IsInjective(Without(s, i))
           /\ Len(Without(s, i)) = Len(s) - 1
           /\ Range(Without(s, i)) = Range(s) \ {s[i]}
           /\ \A k \in 1 .. i - 1 : Without(s, i)[k] = s[k]
  <1>. DEFINE w == Without(s, i)
  <1>1. /\ w = [k \in 1 .. Len(s) - 1 |-> IF k < i THEN s[k] ELSE s[k + 1]]
        /\ Len(s) - 1 \in Nat /\ i \in 1 .. Len(s)
    BY DEF Without
  <1>2. w \in Seq(Consumers) /\ Len(w) = Len(s) - 1 /\ DOMAIN w = 1 .. Len(s) - 1
    BY <1>1
  <1>3. \A k \in DOMAIN w : w[k] = IF k < i THEN s[k] ELSE s[k + 1]
    BY <1>1, <1>2
  <1>. HIDE DEF w
  <1>4. IsInjective(w)
    BY <1>1, <1>2, <1>3 DEF IsInjective
  <1>5. Range(w) = Range(s) \ {s[i]}
    <2>1. ASSUME NEW k \in DOMAIN w
          PROVE  w[k] \in Range(s) \ {s[i]}
      BY <1>1, <1>2, <1>3 DEF IsInjective, Range
    <2>2. ASSUME NEW k \in DOMAIN s, s[k] # s[i]
          PROVE  s[k] \in Range(w)
      <3>1. CASE k < i
        BY <1>1, <1>2, <1>3, <3>1 DEF Range
      <3>2. CASE k > i
        <4>1. k - 1 \in DOMAIN w /\ w[k - 1] = s[k]
          BY <1>1, <1>2, <1>3, <3>2
        <4>2. QED BY <4>1 DEF Range
      <3>3. QED BY <2>2, <3>1, <3>2, <1>1
    <2>3. QED BY <2>1, <2>2 DEF Range
  <1>6. QED BY <1>1, <1>2, <1>3, <1>4, <1>5 DEF w

\* So does adding one that is not there.
LEMMA AppendKeeps ==
    ASSUME NEW s \in Seq(Consumers), IsInjective(s), NEW c \in Consumers, c \notin Range(s)
    PROVE  /\ Append(s, c) \in Seq(Consumers)
           /\ IsInjective(Append(s, c))
           /\ Range(Append(s, c)) = Range(s) \cup {c}
  <1>1. /\ Append(s, c) \in Seq(Consumers)
        /\ DOMAIN Append(s, c) = 1 .. Len(s) + 1
        /\ \A k \in 1 .. Len(s) : Append(s, c)[k] = s[k]
        /\ Append(s, c)[Len(s) + 1] = c
    OBVIOUS
  <1>2. DOMAIN s = 1 .. Len(s) /\ Len(s) \in Nat
    OBVIOUS
  <1>3. IsInjective(Append(s, c))
    BY <1>1, <1>2 DEF IsInjective, Range
  <1>4. Range(Append(s, c)) = Range(s) \cup {c}
    BY <1>1, <1>2 DEF Range
  <1>5. QED BY <1>1, <1>3, <1>4

LEMMA RelayInit == Init => RelayInv
  <1>. SUFFICES ASSUME Init
                PROVE  RelayInv
    OBVIOUS
  <1>1. writers \in Seq(Consumers) /\ IsInjective(writers) /\ Range(writers) = {}
    BY DEF Init, IsInjective, Range
  <1>2. at \in Nat \ {0} /\ broken \subseteq 1 .. Len(writers)
    BY DEF Init
  <1>3. TypeOK
    BY <1>1, <1>2, Zenon DEF Init, TypeOK
  <1>4. Registered /\ Indexed
    BY <1>1 DEF Init, Registered, Indexed, Locked
  <1>5. StopsFirst
    BY RelayAssumption DEF Init, StopsFirst, Closers
  <1>6. QED BY <1>3, <1>4, <1>5 DEF RelayInv

\* The steps of the pump up to a chunk touch neither the writers nor the handlers.
LEMMA PumpKeeps ==
    ASSUME RelayInv, Fetch \/ Wait \/ BodyEnds \/ Chunk
    PROVE  RelayInv'
  <1>1. /\ pump' \in {"fetch", "wait", "copy", "write", "ended"} /\ ~Locked
        /\ process' \in {process, "killed"}
        /\ UNCHANGED <<serve, at, broken, writers, handler, done, once, closer, stopped>>
    BY DEF Fetch, Wait, BodyEnds, Chunk, Locked, stop, RelayInv, TypeOK
  <1>2. TypeOK'
    <2>1. process' \in {"runs", "ended", "killed"}
      BY <1>1 DEF RelayInv, TypeOK
    <2>2. QED BY <1>1, <2>1, Zenon DEF RelayInv, TypeOK
  <1>3. (Registered /\ Indexed /\ StopsFirst)'
    BY <1>1 DEF RelayInv, Registered, Indexed, StopsFirst, Locked
  <1>4. QED BY <1>2, <1>3 DEF RelayInv

\* A write.
LEMMA WriteKeeps ==
    ASSUME RelayInv, WritePipe \/ DropBroken \/ EndWrite
    PROVE  RelayInv'
  <1>. USE DEF RelayInv, TypeOK, stop
  <1>1. CASE WritePipe
    <2>. DEFINE c == writers[at]
    <2>1. /\ c \in Consumers /\ c \in Range(writers) /\ at \in 1 .. Len(writers)
          /\ Locked /\ at' = at + 1
          /\ UNCHANGED <<serve, pump, writers, stop>>
      BY <1>1 DEF WritePipe, Range
    <2>2. CASE handler[c] = "read" /\ handler' = [handler EXCEPT ![c] = "write"] /\ UNCHANGED broken
      <3>1. handler' \in [Consumers -> {"off", "add", "read", "write", "close", "remove"}]
        BY <2>1, <2>2
      <3>2. TypeOK'
        BY <2>1, <2>2, <3>1
      <3>3. Registered'
        BY <2>1, <2>2 DEF Registered
      <3>4. Indexed'
        BY <2>1, <2>2 DEF Indexed, Locked
      <3>5. StopsFirst'
        BY <2>1 DEF StopsFirst
      <3>6. QED BY <3>2, <3>3, <3>4, <3>5
    <2>3. CASE handler[c] = "remove" /\ broken' = broken \cup {at} /\ UNCHANGED handler
      <3>1. TypeOK'
        BY <2>1, <2>3
      <3>2. (Registered /\ StopsFirst)'
        BY <2>1, <2>3 DEF Registered, StopsFirst
      <3>3. Indexed'
        BY <2>1, <2>3 DEF Indexed, Locked
      <3>4. QED BY <3>1, <3>2, <3>3
    <2>4. QED BY <1>1, <2>2, <2>3 DEF WritePipe
  <1>2. CASE DropBroken
    <2>1. PICK i \in broken : /\ \A j \in broken : j <= i
                              /\ writers' = Without(writers, i)
                              /\ broken' = broken \ {i}
      BY <1>2 DEF DropBroken
    <2>2. i \in DOMAIN writers /\ handler[writers[i]] = "remove" /\ writers[i] \in Consumers
      BY <2>1 DEF Indexed
    <2>3. UNCHANGED <<serve, pump, at, handler, stop>> /\ Locked
      BY <1>2 DEF DropBroken
    <2>4. writers' \in Seq(Consumers) /\ IsInjective(writers') /\ Len(writers') = Len(writers) - 1
      BY <2>1, <2>2, WithoutKeeps
    <2>5. /\ Range(writers') = Range(writers) \ {writers[i]}
          /\ \A k \in 1 .. i - 1 : writers'[k] = writers[k]
      BY <2>1, <2>2, WithoutKeeps
    <2>6. broken' \subseteq 1 .. i - 1 /\ i <= Len(writers)
      BY <2>1, <2>2
    <2>7. TypeOK'
      BY <2>2, <2>3, <2>4, <2>6
    <2>8. (Registered /\ StopsFirst)'
      BY <2>2, <2>3, <2>5 DEF Registered, StopsFirst
    <2>9. Indexed'
      BY <2>1, <2>3, <2>5, <2>6 DEF Indexed, Locked
    <2>10. QED BY <2>7, <2>8, <2>9
  <1>3. CASE EndWrite
    BY <1>3 DEF EndWrite, Registered, Indexed, StopsFirst, Locked
  <1>4. QED BY <1>1, <1>2, <1>3

\* A handler.
LEMMA HandlerKeeps ==
    ASSUME RelayInv, NEW c \in Consumers,
           Connect(c) \/ AddWriter(c) \/ Forward(c) \/ ClosePipe(c) \/ RemoveWriter(c)
    PROVE  RelayInv'
  <1>. USE DEF RelayInv, TypeOK, Move, source, stop
  <1>1. CASE Connect(c)
    BY <1>1 DEF Connect, Registered, Indexed, StopsFirst, Locked, Range
  <1>2. CASE AddWriter(c)
    <2>1. c \notin Range(writers) /\ writers' = Append(writers, c)
      BY <1>2 DEF AddWriter, Registered
    <2>2. /\ writers' \in Seq(Consumers) /\ IsInjective(writers')
          /\ Range(writers') = Range(writers) \cup {c}
      BY <2>1, AppendKeeps
    <2>3. broken' = {} /\ at' = 1 /\ pump' = pump /\ ~Locked
      BY <1>2 DEF AddWriter, Indexed
    <2>4. TypeOK'
      BY <1>2, <2>2, <2>3 DEF AddWriter
    <2>5. (Registered /\ Indexed /\ StopsFirst)'
      BY <1>2, <2>2, <2>3 DEF AddWriter, Registered, Indexed, StopsFirst, Locked
    <2>6. QED BY <2>4, <2>5
  <1>3. CASE Forward(c) \/ ClosePipe(c)
    <2>1. PICK to \in {"read", "close", "remove"} :
             /\ handler[c] \in {"write", "close"} /\ handler' = [handler EXCEPT ![c] = to]
             /\ UNCHANGED <<serve, source, stop, writers>>
      BY <1>3 DEF Forward, ClosePipe
    <2>2. TypeOK'
      BY <2>1
    <2>3. (Registered /\ Indexed /\ StopsFirst)'
      BY <2>1 DEF Registered, Indexed, StopsFirst, Locked, Range
    <2>4. QED BY <2>2, <2>3
  <1>4. CASE RemoveWriter(c)
    <2>1. broken' = {} /\ at' = 1 /\ pump' = pump /\ ~Locked
      BY <1>4 DEF RemoveWriter, Indexed
    <2>2. /\ writers' \in Seq(Consumers) /\ IsInjective(writers')
          /\ Range(writers') = Range(writers) \ {c}
      <3>1. CASE \E i \in DOMAIN writers : writers[i] = c /\ writers' = Without(writers, i)
        BY <3>1, WithoutKeeps
      <3>2. CASE c \notin Range(writers) /\ UNCHANGED writers
        BY <3>2
      <3>3. QED BY <1>4, <3>1, <3>2 DEF RemoveWriter
    <2>3. TypeOK'
      BY <1>4, <2>1, <2>2 DEF RemoveWriter
    <2>4. (Registered /\ Indexed /\ StopsFirst)'
      BY <1>4, <2>1, <2>2 DEF RemoveWriter, Registered, Indexed, StopsFirst, Locked
    <2>5. QED BY <2>3, <2>4
  <1>5. QED BY <1>1, <1>2, <1>3, <1>4

\* A call of hb.close, and the end of the process.
LEMMA CloserKeeps ==
    ASSUME RelayInv, NEW p \in Closers,
           Call(p) \/ RunOnce(p) \/ SendStop(p) \/ Return(p) \/ Exit(p) \/ Killed
    PROVE  RelayInv'
  <1>1. UNCHANGED <<serve, source, writers, handler>>
    BY DEF Call, RunOnce, SendStop, Return, Exit, Killed
  <1>2. (Registered /\ Indexed)'
    BY <1>1 DEF RelayInv, Registered, Indexed, Locked, source
  <1>3. StopsFirst'
    BY RelayAssumption
       DEF RelayInv, TypeOK, StopsFirst, Closers, Call, RunOnce, SendStop, Return, Exit,
           Killed
  <1>4. once' \in Closers \cup {Nobody, "over"}
    BY DEF RelayInv, TypeOK, Call, RunOnce, SendStop, Return, Exit, Killed
  <1>5. closer' \in [Closers -> {"off", "in", "back"}]
    BY DEF RelayInv, TypeOK, Call, RunOnce, SendStop, Return, Exit, Killed
  <1>6. done' \in BOOLEAN /\ stopped' \in BOOLEAN /\ process' \in {"runs", "ended", "killed"}
    BY DEF RelayInv, TypeOK, Call, RunOnce, SendStop, Return, Exit, Killed
  <1>7. TypeOK'
    BY <1>1, <1>4, <1>5, <1>6, Zenon DEF RelayInv, TypeOK, source
  <1>8. QED BY <1>2, <1>3, <1>7 DEF RelayInv

LEMMA RelayInvariant == Spec => []RelayInv
  <1>1. RelayInv /\ UNCHANGED vars => RelayInv'
    BY DEF RelayInv, TypeOK, Registered, Indexed, StopsFirst, Locked, vars, source, stop
  <1>2. RelayInv /\ [Next]_vars => RelayInv'
    <2>1. "main" \in Closers
      BY DEF Closers
    <2>2. QED
      BY <1>1, <2>1, PumpKeeps, WriteKeeps, HandlerKeeps, CloserKeeps, Zenon DEF Next
  <1>3. QED BY <1>2, RelayInit, PTL DEF Spec

-----------------------------------------------------------------------------
\* Every variable has its type, and a pipe is registered once.
THEOREM TypeCorrect == Spec => []TypeOK
  BY RelayInvariant, PTL DEF RelayInv

\* Whichever way the process ends by itself, after SIGINT or at the end of the stream,
\* the stop request has been sent before: sync.Once lets the second caller of hb.close
\* wait for the first.
THEOREM StopIsSent == Spec => []StopBeforeExit
  <1>1. RelayInv => StopBeforeExit
    BY DEF RelayInv, StopsFirst, StopBeforeExit
  <1>2. QED BY <1>1, RelayInvariant, PTL

-----------------------------------------------------------------------------
(* The refinement. Outside of a write nobody is owed anything; a write owes *)
(* the chunk to the writers it has not come to.                            *)

here    == {c \in Consumers : handler[c] \in {"add", "read", "write", "close"}}
members == Range(writers)
owed    == IF Locked THEN {writers[i] : i \in at .. Len(writers)} ELSE {}

LEMMA PumpMaps ==
    ASSUME RelayInv, Fetch \/ Wait \/ BodyEnds \/ Chunk
    PROVE  Fan!Next \/ UNCHANGED <<here, members, owed>>
  <1>. USE DEF here, members, owed
  <1>1. /\ ~Locked /\ UNCHANGED <<at, writers, handler>> /\ at = 1
        /\ Locked' => pump' = "write"
    BY DEF Fetch, Wait, BodyEnds, Chunk, Locked, RelayInv, Indexed
  <1>2. CASE pump' = "write"
    <2>1. owed' = members
      BY <1>1, <1>2 DEF Locked, Range, RelayInv, TypeOK
    <2>2. Fan!Chunk
      BY <1>1, <2>1 DEF Fan!Chunk
    <2>3. QED BY <2>2 DEF Fan!Next
  <1>3. CASE pump' # "write"
    BY <1>1, <1>3 DEF Locked
  <1>4. QED BY <1>2, <1>3

LEMMA WriteMaps ==
    ASSUME RelayInv, WritePipe \/ DropBroken \/ EndWrite
    PROVE  Fan!Next \/ UNCHANGED <<here, members, owed>>
  <1>. USE DEF here, members, owed, RelayInv, TypeOK
  <1>1. CASE WritePipe
    <2>1. /\ at \in 1 .. Len(writers) /\ Locked /\ Locked' /\ at' = at + 1
          /\ UNCHANGED writers
      BY <1>1 DEF WritePipe, Locked
    <2>2. PICK c \in Consumers : c = writers[at]
      BY <2>1
    <2>3. here' = here
      BY <1>1, <2>1 DEF WritePipe
    <2>4. c \in owed /\ owed' = owed \ {c}
      <3>1. /\ writers \in Seq(Consumers) /\ IsInjective(writers)
            /\ owed  = {writers[i] : i \in at .. Len(writers)}
            /\ owed' = {writers[i] : i \in at + 1 .. Len(writers)}
        BY <2>1
      <3>. HIDE DEF RelayInv, TypeOK, owed, here, members
      <3>2. QED BY <2>1, <2>2, <3>1 DEF IsInjective
    <2>5. Fan!Deliver(c)
      BY <2>1, <2>3, <2>4 DEF Fan!Deliver
    <2>6. QED BY <2>5 DEF Fan!Next
  <1>2. CASE DropBroken
    <2>1. PICK i \in broken : writers' = Without(writers, i)
      BY <1>2 DEF DropBroken
    <2>2. i \in DOMAIN writers /\ writers[i] \in Consumers /\ writers[i] \in members \ here
      BY <2>1 DEF Indexed, Range
    <2>3. members' = members \ {writers[i]} /\ Len(writers') = Len(writers) - 1
      BY <2>1, <2>2, WithoutKeeps
    <2>4. here' = here /\ owed = {} /\ owed' = {}
      BY <1>2, <2>3 DEF DropBroken, Locked
    <2>5. Fan!Drop({writers[i]})
      BY <2>2, <2>3, <2>4 DEF Fan!Drop
    <2>6. QED BY <2>2, <2>5 DEF Fan!Next
  <1>3. CASE EndWrite
    BY <1>3 DEF EndWrite, Locked
  <1>4. QED BY <1>1, <1>2, <1>3

LEMMA HandlerMaps ==
    ASSUME RelayInv, NEW c \in Consumers,
           Connect(c) \/ AddWriter(c) \/ Forward(c) \/ ClosePipe(c) \/ RemoveWriter(c)
    PROVE  Fan!Next \/ UNCHANGED <<here, members, owed>>
  <1>. USE DEF here, members, owed, RelayInv, TypeOK, Move, source
  <1>1. CASE Connect(c)
    <2>1. c \notin here \cup members /\ here' = here \cup {c} /\ UNCHANGED <<members, owed>>
      BY <1>1 DEF Connect, Registered, Locked
    <2>2. Fan!Arrive(c)
      BY <2>1 DEF Fan!Arrive
    <2>3. QED BY <2>2 DEF Fan!Next
  <1>2. CASE AddWriter(c)
    <2>1. c \in here \ members /\ here' = here /\ owed = {} /\ owed' = {}
      BY <1>2 DEF AddWriter, Registered, Locked
    <2>2. members' = members \cup {c}
      BY <1>2, <2>1, AppendKeeps DEF AddWriter
    <2>3. Fan!Admit(c)
      BY <2>1, <2>2 DEF Fan!Admit
    <2>4. QED BY <2>3 DEF Fan!Next
  <1>3. CASE Forward(c)
    BY <1>3 DEF Forward, Locked
  <1>4. CASE ClosePipe(c)
    <2>1. here' = here \ {c} /\ UNCHANGED <<members, owed>>
      BY <1>4 DEF ClosePipe, Locked
    <2>2. Fan!Leave(c)
      BY <2>1 DEF Fan!Leave
    <2>3. QED BY <2>2 DEF Fan!Next
  <1>5. CASE RemoveWriter(c)
    <2>1. c \notin here /\ here' = here /\ owed = {} /\ owed' = {}
      BY <1>5 DEF RemoveWriter, Locked
    <2>2. CASE \E i \in DOMAIN writers : writers[i] = c /\ writers' = Without(writers, i)
      <3>1. PICK i \in DOMAIN writers : writers[i] = c /\ writers' = Without(writers, i)
        BY <2>2
      <3>2. members' = members \ {c}
        BY <3>1, WithoutKeeps
      <3>3. c \in members
        BY <3>1 DEF Range
      <3>4. Fan!Drop({c})
        BY <2>1, <3>2, <3>3 DEF Fan!Drop
      <3>5. QED BY <3>4 DEF Fan!Next
    <2>3. CASE UNCHANGED writers
      BY <2>1, <2>3
    <2>4. QED BY <1>5, <2>2, <2>3 DEF RemoveWriter
  <1>6. QED BY <1>1, <1>2, <1>3, <1>4, <1>5

\* fanWriter and the handlers of doStreamServe implement Broadcast: in whatever order
\* consumers come, stall and go while a chunk is written and broken pipes are removed,
\* each that is served gets every chunk exactly once.
THEOREM RelayImplementsBroadcast == Spec => ImplementsBroadcast
  <1>. USE DEF here, members, owed
  <1>1. Init => Fan!Init
    BY DEF Init, Fan!Init, Locked, Range
  <1>2. RelayInv /\ [Next]_vars => [Fan!Next]_<<here, members, owed>>
    <2>. SUFFICES ASSUME RelayInv, [Next]_vars
                  PROVE  Fan!Next \/ UNCHANGED <<here, members, owed>>
      OBVIOUS
    <2>1. CASE \/ \E p \in Closers : Call(p) \/ RunOnce(p) \/ SendStop(p) \/ Return(p) \/ Exit(p)
               \/ Killed
      BY <2>1 DEF Call, RunOnce, SendStop, Return, Exit, Killed, source, Locked
    <2>2. CASE UNCHANGED vars
      BY <2>2 DEF vars, source, Locked
    <2>. HIDE DEF here, members, owed
    <2>3. QED BY <2>1, <2>2, PumpMaps, WriteMaps, HandlerMaps, Zenon DEF Next
  <1>3. QED
    BY <1>1, <1>2, RelayInvariant, PTL DEF Spec, ImplementsBroadcast, Fan!Spec, Fan!vars
=============================================================================
