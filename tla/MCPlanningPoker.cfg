SPECIFICATION Spec
CONSTANTS
  u1 = u1
  u2 = u2
  s1 = s1
  s2 = s2
  p1 = p1
  p2 = p2
  r1 = r1
  r2 = r2
  None = None
  Users = {u1, u2}
  Stories = {s1, s2}
  Points = {p1}
  Requests = {r1, r2}
  MaxSessions = 2
SYMMETRY MCSymmetry
INVARIANTS
  VotesAreCounted
  VotesAreBlind
  SessionsEndOnPurpose
