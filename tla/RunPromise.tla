----------------------------- MODULE RunPromise -----------------------------
(***************************************************************************)
(* What one execution of a run promises to whoever started it, whatever    *)
(* sessions, timers and instructions came in between: answers are filed    *)
(* while it works and at no other time; an answer that stands is never     *)
(* taken back; once the run is condemned nothing more is filed and it can  *)
(* only fail; and the status it settles with, once, is completed exactly   *)
(* when an answer stands.                                                  *)
(***************************************************************************)
EXTENDS Naturals

VARIABLES
  state,      \* "working" or the status the run settled with
  filed,      \* answers filed: notes and stored replies
  standing,   \* an answer stands that the run will complete with
  condemned   \* a breach, or a session that read nothing, was reported

promise == <<state, filed, standing, condemned>>
Settled == {"completed", "failed", "blocked", "over_budget"}

PromiseInit ==
  /\ state = "working" /\ filed = 0 /\ condemned = FALSE
  /\ standing \in BOOLEAN   \* an Update note starts from a reply that stands

\* An answer is produced and filed, or fails to be.  It need not stand yet: an
\* instruction that came in meanwhile asks for another.
Answer ==
  /\ state = "working" /\ ~condemned
  /\ filed' \in {filed, filed + 1} /\ standing' \in {standing, TRUE}
  /\ UNCHANGED <<state, condemned>>

Condemn ==
  /\ state = "working" /\ condemned' = TRUE
  /\ UNCHANGED <<state, filed, standing>>

Settle ==
  /\ state = "working"
  /\ \/ standing /\ ~condemned /\ state' = "completed"
     \/ condemned /\ state' = "failed"
     \/ ~standing /\ ~condemned /\ state' \in Settled \ {"completed"}
  /\ standing' = (state' = "completed")
  /\ UNCHANGED <<filed, condemned>>

PromiseNext == Answer \/ Condemn \/ Settle
Promise == PromiseInit /\ [][PromiseNext]_promise
=============================================================================
