-------------------------------- MODULE Relay --------------------------------
(***************************************************************************)
(* The command line client as a relay, cmd/cli/main.go: pumpStream copies  *)
(* the server's stream to standard output (doStream) or, through           *)
(* fanWriter, to a pipe for each HTTP consumer (doStreamServe); hb.close   *)
(* stops the stream on the server, once, when a signal comes or doStream   *)
(* ends. The server is the environment.                                    *)
(***************************************************************************)
EXTENDS Naturals, Sequences, Functions

CONSTANTS
    Consumers,  \* HTTP requests to doStreamServe
    Nobody

Closers == {"signal", "main"}

ASSUME RelayAssumption == Nobody \notin Closers \cup {"over"}

VARIABLES
    serve,      \* doStreamServe, not doStream
    pump,       \* where pumpStream is
    writers,    \* fanWriter's pipes, named by their consumers
    at,         \* the index Write has come to
    broken,     \* the indices whose pipe was closed
    handler,    \* where the handler of each consumer is
    done,       \* hb.done is closed
    once,       \* who runs hb.close's function, Nobody, or "over"
    closer,     \* where the callers of hb.close are
    stopped,    \* the stop request has been sent
    process     \* "runs", "ended" by itself, or "killed" by a signal

source == <<pump, at, broken>>
stop   == <<done, once, closer, stopped, process>>
vars   == <<serve, source, writers, handler, stop>>

Init ==
    /\ serve \in BOOLEAN
    /\ pump = "fetch"
    /\ writers = << >>
    /\ at = 1
    /\ broken = {}
    /\ handler = [c \in Consumers |-> "off"]
    /\ done = FALSE
    /\ once = Nobody
    /\ closer = [p \in Closers |-> "off"]
    /\ stopped = FALSE
    /\ process = "runs"

Running == process = "runs"

-----------------------------------------------------------------------------
(* pumpStream. A fetch that fails, and an empty stream, are tried again    *)
(* after a while; for a stream that is not found, it is started first.     *)

Fetch ==
    /\ pump = "fetch" /\ Running
    /\ IF done THEN pump' = "ended" ELSE pump' \in {"copy", "wait"}
    /\ UNCHANGED <<serve, at, broken, writers, handler, stop>>

Wait ==
    /\ pump = "wait" /\ Running
    /\ pump' = IF done THEN "ended" ELSE "fetch"
    /\ UNCHANGED <<serve, at, broken, writers, handler, stop>>

\* The body ends, or reading it fails: also because done cancels the request.
BodyEnds ==
    /\ pump = "copy" /\ Running
    /\ \/ ~done /\ pump' \in {"fetch", "wait"}
       \/ pump' = "ended"
    /\ UNCHANGED <<serve, at, broken, writers, handler, stop>>

\* io.Copy hands the next chunk to fanWriter, which takes its mutex, or to standard
\* output. That may fail, for a full disk, and the pump returns the error; but
\* where it is a pipe that nobody reads any more, SIGPIPE kills the process: only
\* SIGINT and SIGTERM are notified.
Chunk ==
    /\ pump = "copy" /\ Running
    /\ \/ serve /\ pump' = "write" /\ UNCHANGED process
       \/ ~serve /\ pump' \in {"copy", "ended"} /\ UNCHANGED process
       \/ ~serve /\ process' = "killed" /\ UNCHANGED pump
    /\ UNCHANGED <<serve, at, broken, writers, handler, done, once, closer, stopped>>

Locked == pump = "write"

\* fanWriter.Write, pipe by pipe: it waits for each reader in turn, unless the
\* pipe is closed.
WritePipe ==
    /\ Locked /\ at <= Len(writers) /\ Running
    /\ LET c == writers[at] IN
       \/ /\ handler[c] = "read"
          /\ handler' = [handler EXCEPT ![c] = "write"]
          /\ UNCHANGED broken
       \/ /\ handler[c] = "remove"
          /\ broken' = broken \cup {at}
          /\ UNCHANGED handler
    /\ at' = at + 1
    /\ UNCHANGED <<serve, pump, writers, stop>>

Without(s, i) == [k \in 1 .. Len(s) - 1 |-> IF k < i THEN s[k] ELSE s[k + 1]]

\* Mutant: the broken writers are removed from the first to the last, by
\* indices that have moved.
DropBrokenForward ==
    /\ Locked /\ at > Len(writers) /\ Running
    /\ \E i \in broken : /\ \A j \in broken : i <= j
                        /\ writers' = Without(writers, i)
                        /\ broken' = broken \ {i}
    /\ UNCHANGED <<serve, pump, at, handler, stop>>

\* After the last pipe the broken ones go, from the last to the first.
DropBroken ==
    /\ Locked /\ at > Len(writers) /\ Running
    /\ \E i \in broken : /\ \A j \in broken : j <= i
                        /\ writers' = Without(writers, i)
                        /\ broken' = broken \ {i}
    /\ UNCHANGED <<serve, pump, at, handler, stop>>

EndWrite ==
    /\ Locked /\ at > Len(writers) /\ broken = {} /\ Running
    /\ pump' = "copy" /\ at' = 1
    /\ UNCHANGED <<serve, broken, writers, handler, stop>>

-----------------------------------------------------------------------------
(* The handlers of doStreamServe.                                          *)

Move(c, from, to) ==
    /\ Running
    /\ handler[c] = from
    /\ handler' = [handler EXCEPT ![c] = to]
    /\ UNCHANGED <<serve, source, stop>>

Connect(c) == serve /\ Move(c, "off", "add") /\ UNCHANGED writers

AddWriter(c) == ~Locked /\ Move(c, "add", "read") /\ writers' = Append(writers, c)

\* The chunk goes to the consumer, or the consumer turns out to be gone.
Forward(c) ==
    \E to \in {"read", "close"} : Move(c, "write", to) /\ UNCHANGED writers

\* Mutant: the writer is removed first, which waits for the Write that waits for
\* the pipe.
ClosePipeLocked(c) == ~Locked /\ Move(c, "close", "remove") /\ UNCHANGED writers

\* The deferred calls: the pipe is closed first, which frees a Write that
\* waits for it, and then the writer is removed.
ClosePipe(c) == Move(c, "close", "remove") /\ UNCHANGED writers

RemoveWriter(c) ==
    /\ ~Locked
    /\ Move(c, "remove", "off")
    /\ \/ \E i \in DOMAIN writers : writers[i] = c /\ writers' = Without(writers, i)
       \/ c \notin Range(writers) /\ UNCHANGED writers

-----------------------------------------------------------------------------
(* hb.close and the end of the process.                                    *)

Call(p) ==
    /\ closer[p] = "off" /\ Running
    /\ p = "main" => ~serve /\ pump = "ended"
    /\ closer' = [closer EXCEPT ![p] = "in"]
    /\ UNCHANGED <<serve, source, writers, handler, done, once, stopped, process>>

\* The first caller runs the function: it closes done, and sends the stop.
RunOnce(p) ==
    /\ closer[p] = "in" /\ once = Nobody /\ Running
    /\ once' = p
    /\ done' = TRUE
    /\ UNCHANGED <<serve, source, writers, handler, closer, stopped, process>>

SendStop(p) ==
    /\ once = p /\ p \in Closers /\ Running
    /\ stopped' = TRUE
    /\ once' = "over"
    /\ UNCHANGED <<serve, source, writers, handler, done, closer, process>>

\* Mutant: a second caller does not wait for the first.
ReturnAtOnce(p) ==
    /\ closer[p] = "in" /\ once # Nobody /\ once # p /\ Running
    /\ closer' = [closer EXCEPT ![p] = "back"]
    /\ UNCHANGED <<serve, source, writers, handler, done, once, stopped, process>>

\* Every other caller waits until the function is over.
Return(p) ==
    /\ closer[p] = "in" /\ once = "over" /\ Running
    /\ closer' = [closer EXCEPT ![p] = "back"]
    /\ UNCHANGED <<serve, source, writers, handler, done, once, stopped, process>>

\* os.Exit, or doStream returns.
Exit(p) ==
    /\ closer[p] = "back" /\ Running
    /\ process' = "ended"
    /\ UNCHANGED <<serve, source, writers, handler, done, once, closer, stopped>>

\* Any other signal that is not notified, whatever the process is doing: SIGHUP,
\* or SIGPIPE for standard error.
Killed ==
    /\ Running
    /\ process' = "killed"
    /\ UNCHANGED <<serve, source, writers, handler, done, once, closer, stopped>>

Next ==
    \/ Fetch \/ Wait \/ BodyEnds \/ Chunk \/ WritePipe \/ DropBroken \/ EndWrite
    \/ \E c \in Consumers : \/ Connect(c) \/ AddWriter(c) \/ Forward(c)
                            \/ ClosePipe(c) \/ RemoveWriter(c)
    \/ \E p \in Closers : Call(p) \/ RunOnce(p) \/ SendStop(p) \/ Return(p) \/ Exit(p)
    \/ Killed

Spec == Init /\ [][Next]_vars

\* Goroutines run, mutexes are granted in turn, and a consumer takes what it is
\* sent or is gone: one that does neither stalls everybody else.
Fairness ==
    /\ WF_vars(WritePipe) /\ WF_vars(DropBroken) /\ WF_vars(EndWrite)
    /\ \A c \in Consumers : /\ WF_vars(Forward(c)) /\ WF_vars(ClosePipe(c))
                            /\ SF_vars(AddWriter(c)) /\ SF_vars(RemoveWriter(c))

FairSpec == Spec /\ Fairness

-----------------------------------------------------------------------------
(* Properties.                                                             *)

\* Every variable has its type, and a pipe is registered once.
TypeOK ==
    /\ serve \in BOOLEAN /\ done \in BOOLEAN /\ stopped \in BOOLEAN
    /\ process \in {"runs", "ended", "killed"}
    /\ pump \in {"fetch", "wait", "copy", "write", "ended"}
    /\ writers \in Seq(Consumers) /\ IsInjective(writers)
    /\ at \in Nat \ {0}
    /\ broken \subseteq 1 .. Len(writers)
    /\ handler \in [Consumers -> {"off", "add", "read", "write", "close", "remove"}]
    /\ once \in Closers \cup {Nobody, "over"}
    /\ closer \in [Closers -> {"off", "in", "back"}]

\* With consumers that come, stall and go while a chunk is being written, each
\* one gets every chunk exactly once, and nobody who is still served is
\* dropped when the broken pipes of others are removed.
Fan == INSTANCE Broadcast WITH
    here    <- {c \in Consumers : handler[c] \in {"add", "read", "write", "close"}},
    members <- Range(writers),
    owed    <- IF Locked THEN {writers[i] : i \in at .. Len(writers)} ELSE {}

ImplementsBroadcast == Fan!Spec

\* A handler whose consumer is gone ends: it can wait for a chunk that is being
\* written, but never for one that waits for it.
HandlersEnd == \A c \in Consumers : handler[c] = "close" ~> handler[c] = "off" \/ ~Running

\* A process that ends by itself has told the server to stop before, also when SIGINT
\* and the end of the stream race each other. One that is killed may not have.
StopBeforeExit == process = "ended" => stopped

\* What pumpStream says of a downstream pipe that is gone: the write fails, and the
\* error is returned.
BrokenPipeReturned == [][Chunk => process' = process]_vars

\* What pumpStream says: it runs until done is closed or its output fails, and
\* the output of doStreamServe never fails.
PumpRuns == serve /\ pump = "ended" => done
=============================================================================
