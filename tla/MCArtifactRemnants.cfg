SPECIFICATION FairRemnantsSpec
CONSTANTS
  k1 = k1
  k2 = k2
  a1 = a1
  t1 = t1
  p1 = p1
  p2 = p2
  h1 = h1
  h2 = h2
  r1 = r1
  Keys = {k1, k2}
  Artifacts = {a1}
  Trees = {t1}
  Paths = {p1, p2}
  Hashes = {h1, h2}
  Manifest <- MCManifest
  Requests = {r1}
  NoSession = NoSession
  NoArtifact = NoArtifact
  TTL = 1
  Second <- MCSecond
  MaxTime = 2
  MaxVersion = 1
  Grace = 0
  BatchSize = 1
  MaxProjectPrefixPages = 2
  PrefixPageSize = 1
  MaxRemnantObjects = 1
  ObjectPageSize = 2
  MaxInFront = 1
PROPERTIES
  OnlyRemnantsAreSwept
  AbandonedAreReclaimed
  RemnantsAreReclaimed
