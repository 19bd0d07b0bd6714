\* One background deploy, no fault.
CONSTANTS
  f1 = f1  f2 = f2  f3 = f3  b1 = b1  b2 = b2
  Deploys = {b1}
  Background = {b1}
  MaxPhases = 1
  MaxKills = 0
  MaxSleeps = 0
SPECIFICATION Spec
SYMMETRY DeploySymmetry
INVARIANTS OutcomeKept
CHECK_DEADLOCK FALSE
