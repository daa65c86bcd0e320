------------------------------ MODULE MCFanout ------------------------------
(* Fanout for TLC: one run whose lines, a notice and its end share a channel *)
(* of two.                                                                   *)
EXTENDS Fanout
=============================================================================
