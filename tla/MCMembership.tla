----------------------------- MODULE MCMembership -----------------------------
(* Small instances of Membership. *)
EXTENDS Membership, TLC

CONSTANTS u1, u2, p1, p2, i1, r1, r2

\* A link for a viewer, and an invitation for an owner.
MCTemplates == {[kind |-> "link", role |-> "viewer"], [kind |-> "email", role |-> "owner"]}

\* One project on the plan of u1, none on the plan of u2.
MCLimit == [u \in Users |-> IF u = u1 THEN 1 ELSE 0]

MCSymmetry ==
  Permutations(Requests) \cup Permutations(Projects)
=============================================================================
