SPECIFICATION HSpec
CONSTANTS
  Observed = s1
  s1 = s1
  s2 = s2
  NoGuard = NoGuard
  Services = {s1, s2}
  Requests = {r1, r2}
  Routes <- MixedRoutes
  CfgFailureThreshold = 2
  CfgSuccessThreshold = 0
  CfgResetTimeout = 2
  CountCap = 2
  TransitionModulus = 2
SYMMETRY Symmetric
INVARIANTS TypeOK CountersFitState LookupStaysValid ShieldExact
PROPERTIES StateMachine TripsCountedOnce CloseTakesProbes
