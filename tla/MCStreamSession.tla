--------------------------- MODULE MCStreamSession ---------------------------
(***************************************************************************)
(* Small instances of StreamSession: few frames with every kind of input,  *)
(* or few inputs over several restarts.                                    *)
(***************************************************************************)
EXTENDS StreamSession

In(startCode, key, bytes, raw) == [startCode |-> startCode, key |-> key, bytes |-> bytes, raw |-> raw]

\* Keyframes, other frames, an invalid one and an empty one; the camera's clock
\* goes on, jumps ahead or starts again.
ManyInputs ==
    {In(TRUE, TRUE, 1, 0), In(TRUE, FALSE, 1, 33), In(TRUE, TRUE, 2, 20000),
     In(FALSE, FALSE, 1, 33), In(FALSE, FALSE, 0, 0)}

FewInputs == {In(TRUE, TRUE, 1, 0), In(FALSE, FALSE, 1, 33)}
=============================================================================
