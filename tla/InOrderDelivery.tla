-------------------------- MODULE InOrderDelivery --------------------------
(***************************************************************************)
(* What the video receiver promises to the rest of the program: the        *)
(* packets of the stream are taken in order, each at most once, with holes *)
(* where packets were lost; and a frame is handed on only as the unbroken  *)
(* run of packets from its header to the packet taken last, each frame     *)
(* after the one before.                                                   *)
(***************************************************************************)
EXTENDS Integers, Sequences

CONSTANTS N,        \* how many packets there are
          First     \* the packets that start a frame

VARIABLES sent,     \* how many packets have been sent
          high,     \* the packet taken last, -1 when none was
          out       \* the frames handed on

Init ==
    /\ sent = 0
    /\ high = -1
    /\ out = <<>>

Produce ==
    /\ sent < N
    /\ sent' = sent + 1
    /\ UNCHANGED <<high, out>>

\* The packets h .. i in order.
Run(h, i) == [k \in 1 .. i - h + 1 |-> h + k - 1]

\* The last packet that was handed on as part of a frame.
LastOut == IF out = <<>> THEN -1 ELSE out[Len(out)][Len(out[Len(out)])]

Frames(i) == {Run(h, i) : h \in {f \in First : LastOut < f /\ f <= i /\ \A g \in f + 1 .. i : g \notin First}}

Take ==
    \E i \in high + 1 .. sent - 1 :
        /\ high' = i
        /\ \/ out' = out
           \/ \E frame \in Frames(i) : out' = Append(out, frame)
        /\ UNCHANGED sent

Next == Produce \/ Take

Spec == Init /\ [][Next]_<<sent, high, out>>
=============================================================================
