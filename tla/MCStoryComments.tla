---------------------------- MODULE MCStoryComments ----------------------------
(* Small instances of StoryComments. *)
EXTENDS StoryComments, TLC

CONSTANTS u1, u2, c1, c2, b1, b2, d1, d2, r1, r2

MCSymmetry ==
  Permutations(Users) \cup Permutations(Comments) \cup Permutations(Bodies)
    \cup Permutations(Deletions) \cup Permutations(Requests)
=============================================================================
