------------------------------ MODULE Broadcast ------------------------------
(***************************************************************************)
(* What a relay promises its consumers: once admitted, a consumer gets     *)
(* every chunk exactly once and in order, until it leaves, whatever the    *)
(* others do. A chunk is on its way while somebody is owed it, and the     *)
(* next one does not come before.                                          *)
(***************************************************************************)
CONSTANT Consumers

VARIABLES here,    \* the consumers that are served
          members, \* those the chunks go to
          owed     \* the members that have yet to get the current chunk

vars == <<here, members, owed>>

Init == here = {} /\ members = {} /\ owed = {}

Arrive(c) ==
    /\ c \notin here \cup members
    /\ here' = here \cup {c}
    /\ UNCHANGED <<members, owed>>

Admit(c) ==
    /\ c \in here \ members
    /\ owed = {}
    /\ members' = members \cup {c}
    /\ UNCHANGED <<here, owed>>

Leave(c) ==
    /\ here' = here \ {c}
    /\ UNCHANGED <<members, owed>>

\* Nobody who is still served is dropped.
Drop(C) ==
    /\ C \subseteq members \ here
    /\ owed = {}
    /\ members' = members \ C
    /\ UNCHANGED <<here, owed>>

Chunk ==
    /\ owed = {}
    /\ owed' = members
    /\ UNCHANGED <<here, members>>

Deliver(c) ==
    /\ c \in owed
    /\ owed' = owed \ {c}
    /\ UNCHANGED <<here, members>>

Next ==
    \/ \E c \in Consumers : Arrive(c) \/ Admit(c) \/ Leave(c) \/ Deliver(c)
    \/ \E C \in SUBSET Consumers : Drop(C)
    \/ Chunk

Spec == Init /\ [][Next]_vars
=============================================================================
