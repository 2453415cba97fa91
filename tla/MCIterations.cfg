SPECIFICATION IterationsSpec
CONSTANTS
  Stories = {s1}
  Patches = {r1}
  Cron = cron
  Null = none
  Week = 2
  Durations <- MCDurations
  StartDays <- MCStartDays
  Changes <- MCChanges
  FirstDay = 5
  LastDay = 8
  Earliest = 4
  Overlap = FALSE
INVARIANTS
  IterationsTypeOK
  WindowsTile
  RebuildKeepsPlaces
