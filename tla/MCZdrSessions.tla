---------------------------- MODULE MCZdrSessions ----------------------------
(* Model-checking instances of ZdrSessions. *)
EXTENDS ZdrSessions, TLC

\* Conversations, and targets, are interchangeable.
ZdrSymmetry == Permutations(Conv) \cup Permutations(Target)
=============================================================================
