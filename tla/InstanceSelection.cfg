SPECIFICATION Spec
CONSTANTS
  Algorithms = {"round_robin", "weighted_round_robin", "least_connections", "consistent_hash"}
  InstanceCount = 3
  Weight <- MixedWeights
  RingSize = 8
  VirtualNodes <- Interleaved
  Handlers = {h1, h2}
  Callers <- AuthToo
  CursorModulus = 6
  MaxRequests = 2
SYMMETRY Symmetric
INVARIANTS TypeOK ShareKept CountWithinUse TurnFindsHealthy
PROPERTY OnlyItsKeysMove
