SPECIFICATION LiveSpec
CONSTANTS
  Instances = {i1, i2}
  MaxApplies = 2
  None = None
INVARIANTS TypeOK CheckerAndBalancerAgree OutOfRotationIsUnhealthy
PROPERTIES StatusConverges SettledReturns FailedLeaves
