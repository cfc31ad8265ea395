-------------------------- MODULE MCStreamClients --------------------------
(* An instance of StreamClients for TLC: a device with two channels.       *)
EXTENDS StreamClients

CONSTANTS c1, c2

MCChannels == {c1, c2}
=============================================================================
