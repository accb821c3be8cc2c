SPECIFICATION LiveSpec
CONSTANTS
  Instances = {i1}
  MaxApplies = 2
  None = None
PROPERTY RecoveredReturns
