\* One foreground and one background deploy, one killed and one that sleeps.
CONSTANTS
  f1 = f1  f2 = f2  f3 = f3  b1 = b1  b2 = b2
  Deploys = {f1, f2, b1}
  Background = {b1}
  MaxPhases = 1
  MaxKills = 1
  MaxSleeps = 0
SPECIFICATION FairSpec
INVARIANTS OneRolloutUnlessRaced WaitSeesThisDeploy
PROPERTY WaitEnds
CHECK_DEADLOCK FALSE
