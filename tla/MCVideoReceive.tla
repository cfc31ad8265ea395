--------------------------- MODULE MCVideoReceive ---------------------------
(***************************************************************************)
(* Small instances of VideoReceive.  The stream has two channels: a frame  *)
(* of three packets, a frame of two on the other channel, a packet whose   *)
(* declared size is invalid, and a frame of one packet.                    *)
(***************************************************************************)
EXTENDS VideoReceive

MCChannels == {0, 1}

MCFirst == {0, 3, 5, 6} \cap (0 .. N - 1)

MCChannel == [i \in MCFirst |-> IF i = 3 THEN 1 ELSE 0]

MCDeclared == [i \in MCFirst |-> CASE i = 0 -> 3
                                   [] i = 3 -> 2
                                   [] i = 5 -> 0
                                   [] i = 6 -> 1]

MCBytes == [i \in 0 .. N - 1 |-> 1]

\* The steps that the theorems about more than one turn of the ring are about.
TurnsSpec == Init /\ [][Next /\ EndsNotCompared]_vars
=============================================================================
