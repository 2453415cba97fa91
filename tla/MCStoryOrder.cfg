SPECIFICATION OrderSpec
CONSTANTS
  r1 = r1
  r2 = r2
  Requests = {r1, r2}
  Absent = Absent
  MaxStories = 3
  MaxPosition = 3
SYMMETRY MCSymmetry
INVARIANTS
  PanelOrderIsStrict
  RefusedCreationsLeaveNothing
PROPERTIES
  OnlyReordersReorder
CHECK_DEADLOCK FALSE
