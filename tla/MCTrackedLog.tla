---------------------------- MODULE MCTrackedLog ----------------------------
(* TrackedLog on two payloads and a file of at most MaxFrames frames. *)
EXTENDS TrackedLog, TLC

Symmetry == Permutations(Payloads)
=============================================================================
