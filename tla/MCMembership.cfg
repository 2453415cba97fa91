SPECIFICATION Spec
CONSTANTS
  u1 = u1
  u2 = u2
  p1 = p1
  p2 = p2
  i1 = i1
  r1 = r1
  r2 = r2
  None = None
  Users = {u1, u2}
  Projects = {p1, p2}
  Invitations = {i1}
  Requests = {r1, r2}
  Templates <- MCTemplates
  RolesGiven = {"owner", "viewer"}
  Limit <- MCLimit
SYMMETRY MCSymmetry
INVARIANTS
  OwnersLeaveOnPurpose
  LimitIsKept
  LinksAdmitOne
  MembersHaveAccounts
