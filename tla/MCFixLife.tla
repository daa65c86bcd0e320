----------------------------- MODULE MCFixLife -----------------------------
(* Instances of FixLife for TLC. *)
EXTENDS FixLife, TLC

\* A plain fix, the two ways of accepting, a dry run, a local fix, and the fix
\* of an evaluation.
Usual == {{}, {"accept"}, {"accept", "local"}, {"dry"}, {"local"}, {"local", "eval"}}
Alike == Permutations(Cmds)
=============================================================================
