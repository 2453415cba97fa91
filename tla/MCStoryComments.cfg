SPECIFICATION Spec
CONSTANTS
  u1 = u1
  u2 = u2
  c1 = c1
  c2 = c2
  b1 = b1
  b2 = b2
  d1 = d1
  d2 = d2
  r1 = r1
  r2 = r2
  NoRow = NoRow
  Users = {u1, u2}
  Comments = {c1, c2}
  Bodies = {b1, b2}
  Deletions = {d1, d2}
  Requests = {r1, r2}
SYMMETRY MCSymmetry
INVARIANTS
  NoCommentOutlivesItsStory
  DeletionsAreTold
PROPERTIES
  ArchivedCommentsAreKept
CHECK_DEADLOCK FALSE
