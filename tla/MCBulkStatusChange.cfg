SPECIFICATION MCSpec
CONSTANTS
  s1 = s1
  s2 = s2
  r1 = r1
  r2 = r2
  Stories = {s1, s2}
  Requests = {r1, r2}
  Absent = Absent
  NewStories <- MCNew
  Edits <- MCEdits
  BulkTo <- MCBulkTo
  AssignTo = {0, 1}
  MaxDay = 3
  MaxTrail = 3
INVARIANTS
  BulkStopsForAReason
  ArchiveTrailIsTrue
PROPERTIES
  CarriedOver
