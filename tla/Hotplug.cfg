SPECIFICATION FairHotplugSpec
CONSTANTS
  NrStreak = 1
  NrStreakLong = 3
  FreqStreak = 2
  MaxLoadChanges = 2
INVARIANTS
  OnlineNested
PROPERTIES
  NoFlap
  ActsOnLoad
  LoadDecides
