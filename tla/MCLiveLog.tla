----------------------------- MODULE MCLiveLog -----------------------------
(* Instances of LiveLog for TLC. *)
EXTENDS LiveLog

Hosted == [hosts |-> {"app"}, asides |-> 0]
Polled == [hosts |-> {"cli"}, asides |-> 1]
Mixed  == [hosts |-> {"app", "cli"}, asides |-> 0]

OneHost   == {Hosted, Polled}
BothHosts == {Mixed}
=============================================================================
