----------------------------- MODULE MCRunExec -----------------------------
(* Instances of RunExec for TLC. *)
EXTENDS RunExec

NoFallback == << >>
OneFallback == <<"m2">>
TwoFallbacks == <<"m2", "m3">>
=============================================================================
