SPECIFICATION MCSpec
CONSTANTS
  k1 = k1
  k2 = k2
  k3 = k3
  a1 = a1
  a2 = a2
  t1 = t1
  t2 = t2
  p1 = p1
  h1 = h1
  r1 = r1
  r2 = r2
  Keys = {k1, k2, k3}
  FirstKey = k1
  SecondKey = k2
  Artifacts = {a1, a2}
  Trees = {t1, t2}
  Paths = {p1}
  Hashes = {h1}
  Manifest <- MCManifest
  Requests = {r1, r2}
  NoSession = NoSession
  NoArtifact = NoArtifact
  Nobody = Nobody
  MaxRetries = 1
  MaxLate = 2
  TTL = 2
  Second <- MCSecond
  MaxTime = 4
  MaxVersion = 2
SYMMETRY MCSymmetry
INVARIANTS
  VersionsComplete
  PublishesAtMostOnce
  ReportsAreTrue
PROPERTIES
  AnswersAreFinal
  ImplementsHistory
CHECK_DEADLOCK FALSE
