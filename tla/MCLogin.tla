------------------------------ MODULE MCLogin ------------------------------
(* An instance of Login for TLC: two pages, and the attempt at the start.  *)
EXTENDS Login

CONSTANTS p1, p2

MCPages == {p1, p2}

MCChallenges == 1 .. 7
=============================================================================
