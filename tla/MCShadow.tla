------------------------------ MODULE MCShadow ------------------------------
(* Instances of Shadow for TLC. *)
EXTENDS Shadow, TLC

Kinds(a, b) == 1 :> a @@ 2 :> b
Serves == Kinds("serve", "serve")
Day(kind, inTurn, ks, n, cap) ==
    [kind |-> kind, inTurn |-> inTurn, listed |-> ks, concurrency |-> n, maxPerDay |-> cap,
     hush |-> FALSE, most |-> 1]
Dear(day) == [day EXCEPT !.most = 3]
Hush(day) == [day EXCEPT !.hush = TRUE]

\* One supervisor after the other, with runs that may pass their budget and the
\* day's; beside each other, beside a process that ticks once, whose run may go
\* quiet while it lives or not, and beside a run asked for by hand; two tickets,
\* and room for one; one ticket, and room to try it again.
TwoProcesses ==
    {Dear(Day(Serves, TRUE, Tickets, 1, 2)), Day(Serves, FALSE, Tickets, 2, 1),
     Day(Serves, FALSE, {"k1"}, 2, 2), Day(Kinds("once", "serve"), FALSE, {"k1"}, 2, 2),
     Hush(Day(Kinds("once", "serve"), FALSE, {"k1"}, 1, 2)),
     Day(Kinds("serve", "hand"), FALSE, {"k1"}, 1, 2)}
=============================================================================
