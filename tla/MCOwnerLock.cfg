CONSTANTS
  g1 = g1
  g2 = g2
  g3 = g3
  Nobody = Nobody
  Goroutines = {g1, g2, g3}
  Impatient = {g3}
SPECIFICATION FairSpec
INVARIANTS MutualExclusion NoStrandedWaiter
PROPERTIES RefinesVMOwner SomebodyEnters
CHECK_DEADLOCK FALSE
