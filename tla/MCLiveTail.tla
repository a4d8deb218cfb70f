----------------------------- MODULE MCLiveTail -----------------------------
(* LiveTail for TLC: topics are interchangeable. *)
EXTENDS LiveTail, TLC

TopicSymmetry == Permutations(Topics)
=============================================================================
