------------------------ MODULE MCStationSupervision ------------------------
(* An instance of StationSupervision for TLC: the loader of the start and  *)
(* one of a login in the browser, beside the supervisor.                   *)
EXTENDS StationSupervision

CONSTANTS l1, l2

MCLoaders == {l1, l2}

\* What a client was that has been collected makes no difference to any action.
MCView ==
    <<station, [i \in Ids \ Free |-> <<client[i], withKey[i], session[i], link[i]>>],
      callers, faults>>
=============================================================================
