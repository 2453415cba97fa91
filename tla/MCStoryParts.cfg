SPECIFICATION Spec
CONSTANTS
  s1 = s1
  s2 = s2
  s3 = s3
  r1 = r1
  r2 = r2
  f1 = f1
  NoStory = NoStory
  Stories = {s1, s2, s3}
  Requests = {r1, r2}
  Files = {f1}
SYMMETRY MCSymmetry
INVARIANTS
  NoCycles
  ListedFilesAreStored
  StrayObjectsAreExplained
CHECK_DEADLOCK FALSE
