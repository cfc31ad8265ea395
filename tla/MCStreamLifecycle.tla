-------------------------- MODULE MCStreamLifecycle --------------------------
(***************************************************************************)
(* A small instance of StreamLifecycle: its consumers and timers are model *)
(* values, given in the configurations.                                    *)
(***************************************************************************)
EXTENDS StreamLifecycle

CONSTANTS c1, c2, h1, t1, t2

NoClients  == {}
TwoClients == {c1, c2}
OneHeartbeat == {h1}
TwoTimers == {t1, t2}
=============================================================================
