--------------------------- MODULE MCDataChannel ---------------------------
(***************************************************************************)
(* A small instance of DataChannel: a message shorter than a header, one   *)
(* without a payload, and one that takes several packets, with numbers     *)
(* that wrap on the way.                                                   *)
(***************************************************************************)
EXTENDS DataChannel

MessageSizes == <<1, 0, 5>>

\* Shorter messages, so that none takes more of a ring of four numbers than
\* PartBefore can order, and a stream that goes around it more than once.
TurnMessages == <<1, 0, 3, 2>>

\* The hypotheses of the theorems about any number of turns, as a specification.
TurnsSpec == Init /\ [][Next /\ InTime /\ PartsCompare]_vars

\* What the hypothesis InTime gives: the packets are parsed as they were sent.
PacketsInOrder == [][TakenInOrder]_vars
=============================================================================
