------------------------------- MODULE MCServer -------------------------------
(* Instances of Server for TLC. *)
EXTENDS Server, TLC

MCSymmetry == Permutations(Thread) \cup Permutations(Session)
=============================================================================
