---------------------------- MODULE MCSteerQueue ----------------------------
(* Instances of SteerQueue for TLC: one job hosts the run. *)
EXTENDS SteerQueue, TLC

Alone(p, refused, fix) ==
    [home |-> [j \in Jobs |-> p], notifyFails |-> refused, overlap |-> FALSE, fix |-> fix]

\* All in the app; all commands, whose webhook may refuse, of a fix or not; and
\* a command's run steered from the app, and a fix in the app.
OneProcess == {Alone(App, FALSE, FALSE)} \cup {Alone("cli", TRUE, fix) : fix \in BOOLEAN}
HostedOut  == {[Alone(App, FALSE, FALSE) EXCEPT !.home[Host] = "cli"]}
FixInApp   == {Alone(App, FALSE, TRUE)}

Interchangeable == Permutations(Jobs \ {Host})
=============================================================================
