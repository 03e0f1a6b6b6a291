\* Start-up with up to three deaths.
SPECIFICATION FairSpec
CONSTANT MaxDeaths = 3
INVARIANTS
  DeathsExplained
PROPERTIES
  HalfBuiltStaysHalfBuilt
  StartsServing
CHECK_DEADLOCK FALSE
