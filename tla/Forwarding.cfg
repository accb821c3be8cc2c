SPECIFICATION Spec
CHECK_DEADLOCK FALSE
SYMMETRY Alike
CONSTANTS
  None = None
  h1 = h1
  h2 = h2
  b1 = b1
  b2 = b2
  b3 = b3
  b4 = b4
  b5 = b5
  Handlers <- TwoHandlers
  Routes = {"up", "down", "plain"}
  Mode <- RouteModes
  Buffers <- FewBuffers
  PoolSized <- Pooled
  Scenarios <- SmallScenarios
INVARIANTS TypeOK BodiesNotMixed ResolvedIsFresh FailureStaysFailure
