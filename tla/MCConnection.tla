---- MODULE MCConnection ----
(* An instance of Connection for TLC: one lookup of every kind, and one
   session that the station ends.                                          *)
EXTENDS Connection
=============================
