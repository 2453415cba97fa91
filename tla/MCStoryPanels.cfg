SPECIFICATION PanelsSpec
CONSTANTS
  s1 = s1
  r1 = r1
  Stories = {s1}
  Requests = {r1}
  Absent = Absent
  NoStory = NoStory
  Dragged = s1
  NewStories <- MCNew
  Edits <- MCEdits
  AssignTo = {0, 1, 2}
  MaxDay = 2
  MaxTrail = 1
INVARIANTS
  IceboxInvariant
  PanelsPartition
  PageAgrees
  MovesArrive
PROPERTIES
  ImplementsWorkflow
CHECK_DEADLOCK FALSE
