SPECIFICATION Spec
CHECK_DEADLOCK FALSE
CONSTANTS
  None = None
  ServiceOrder <- SortedServices
  LowerCase <- Lowered
  HashModulus = 8
  RingSlots = 2
  LatencyBounds <- SmallBounds
  Latencies = {1, 9}
  Beyond = 50
  StartSecond = 5
  Services <- ServiceSet
  Rules = {"q", "r"}
  ChainNames <- KnownChainNames
  Paths <- AllPaths
  Scenarios <- SmallScenarios
INVARIANTS TypeOK MonitorFollowsConfig TrafficFollowsWeights WindowExact
PROPERTIES KeepsContract RouteEditsAreLocal
