SPECIFICATION MCSpec
CONSTANTS
  u1 = u1
  u2 = u2
  p1 = p1
  p2 = p2
  r1 = r1
  r2 = r2
  s1 = s1
  s2 = s2
  s3 = s3
  t1 = t1
  t2 = t2
  Keep = Keep
  Users = {u1, u2}
  Patches = {p1, p2}
  Requests = {r1, r2}
  Statuses = {s1, s2, s3}
  Texts = {t1, t2}
  Mentions <- MCMentions
  Wishes <- MCWishes
SYMMETRY MCSymmetry
INVARIANTS
  EntriesAreTrue
  MentionsArriveOnce
PROPERTIES
  EditsApplyWhole
  OnlyMembersBecomeOwners
