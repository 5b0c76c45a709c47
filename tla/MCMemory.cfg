SPECIFICATION Spec
CONSTANTS
  Requests = {r1, r2, r3}
  cap = cap
  flag = flag
  Ceilings <- MCCeilings
  Flags <- MCFlags
  Values = {0, 1}
  Bodies <- MCBodies
  MaxTime = 2
  None = None
SYMMETRY RequestSymmetry
INVARIANTS
  ReplayEqualsLive
  NothingIsLost
  ScreenedAgainstOlderConstraints
PROPERTIES
  TopTierNeverFalls
CHECK_DEADLOCK FALSE
