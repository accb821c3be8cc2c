SPECIFICATION HSpec
CONSTANTS
  Observed = s1
  s1 = s1
  s2 = s2
  NoGuard = NoGuard
  Services = {s1}
  Requests = {r1, r2}
  Routes <- GuardedAndBypassed
  CfgFailureThreshold = 2
  CfgSuccessThreshold = 2
  CfgResetTimeout = 2
  CountCap = 3
  TransitionModulus = 2
PROPERTY TripTakesFailuresInARow
