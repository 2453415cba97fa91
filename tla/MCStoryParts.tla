----------------------------- MODULE MCStoryParts -----------------------------
(* Small instances of StoryParts. *)
EXTENDS StoryParts, TLC

CONSTANTS s1, s2, s3, r1, r2, f1

MCSymmetry == Permutations(Stories) \cup Permutations(Requests)
=============================================================================
