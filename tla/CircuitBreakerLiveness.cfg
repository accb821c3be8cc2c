SPECIFICATION LoadSpec
CONSTANTS
  s1 = s1
  NoGuard = NoGuard
  Services = {s1}
  Requests = {r1, r2}
  Routes <- GuardedAndBypassed
  CfgFailureThreshold = 2
  CfgSuccessThreshold = 2
  CfgResetTimeout = 2
  CountCap = 2
  TransitionModulus = 2
PROPERTIES OpenEnds Recovers
