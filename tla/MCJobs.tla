------------------------------- MODULE MCJobs -------------------------------
(* Instances of Jobs for TLC. *)
EXTENDS Jobs

\* Deliveries of one ticket, which a person may ask for too; and two tickets a
\* person asks for together.
OneTicket == [d \in Deliveries |-> "k1"]
Delivered == [arrive |-> Deliveries, lists |-> {<<"k1">>}]
Asked     == [arrive |-> {}, lists |-> {<<"k1", "k2">>}]
Both      == {Delivered, Asked}
=============================================================================
