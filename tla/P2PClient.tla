----------------------------- MODULE P2PClient -----------------------------
(***************************************************************************)
(* A P2P client as the rest of the program sees it: what                   *)
(* WaitForConnection, WaitForEncryption and IsConnected can answer, and    *)
(* in which order those answers may change. Connection implements it; the  *)
(* station's model takes its clients' steps from it.                       *)
(***************************************************************************)

VARIABLE status

Status == [reached: BOOLEAN,   \* connectedReady is closed
           keyed: BOOLEAN,     \* encryptionReady is closed
           up: BOOLEAN,        \* IsConnected
           closed: BOOLEAN]    \* Close was called

Fresh == [reached |-> FALSE, keyed |-> FALSE, up |-> FALSE, closed |-> FALSE]

\* The peer answers. A client that lost its peer may be answered again, and
\* readLoop may handle the answer when Close has just returned.
Reach(c, d) ==
    ~c.up /\ d = [reached |-> TRUE, keyed |-> c.keyed, up |-> TRUE, closed |-> c.closed]

Key(c, d) ==
    c.reached /\ d = [reached |-> TRUE, keyed |-> TRUE, up |-> c.up, closed |-> c.closed]

Drop(c, d) ==
    c.up /\ d = [reached |-> c.reached, keyed |-> c.keyed, up |-> FALSE, closed |-> c.closed]

Shut(c, d) == d = [reached |-> c.reached, keyed |-> c.keyed, up |-> FALSE, closed |-> TRUE]

Step(c, d) == Reach(c, d) \/ Key(c, d) \/ Drop(c, d) \/ Shut(c, d)

Init == status = Fresh

Next == Step(status, status')

Spec == Init /\ [][Next]_status
=============================================================================
