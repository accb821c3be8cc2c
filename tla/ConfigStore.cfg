SPECIFICATION LiveSpec
CHECK_DEADLOCK FALSE
CONSTANTS
  s1 = s1
  s2 = s2
  base = base
  wide = wide
  unauthentic = unauthentic
  malformed = malformed
  Services = {s1, s2}
  Configs <- MixedConfigs
  ServicesOf <- MixedServices
  Valid = {base, wide, unauthentic}
  LimiterOK = {base, wide, unauthentic, malformed}
  AuthOK = {base, wide, malformed}
  Boot = base
  Main = Main
  Alt = Alt
  None = None
  MaxHistory = 2
  MaxOps = 3
  MaxEdits = 2
  MaxCrashes = 1
INVARIANTS TypeOK NewestIsCurrent VersionsIdentify HistoryReplayable ServicesFollowConfig
PROPERTIES PublishAllOrNothing EveryEditIsLoaded
