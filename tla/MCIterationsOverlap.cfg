SPECIFICATION FairSpec
CONSTANTS
  Stories = {}
  Patches = {r1}
  Cron = cron
  Null = none
  Week = 2
  Durations <- MCDurations
  StartDays <- MCSunday
  Changes <- MCDurationChanges
  FirstDay = 5
  LastDay = 6
  Earliest = 4
  Overlap = TRUE
PROPERTY
  TodayIsCovered
