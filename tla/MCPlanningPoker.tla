--------------------------- MODULE MCPlanningPoker ---------------------------
(* Small instances of PlanningPoker. *)
EXTENDS PlanningPoker, TLC

CONSTANTS u1, u2, s1, s2, p1, p2, r1, r2

MCSymmetry == Permutations(Requests) \cup Permutations(Users) \cup Permutations(Stories)
=============================================================================
