----------------------------- MODULE MCStoryOrder -----------------------------
(* Small instances of StoryOrder. *)
EXTENDS StoryOrder, TLC

CONSTANTS r1, r2

MCSymmetry == Permutations(Requests)
=============================================================================
