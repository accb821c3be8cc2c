SPECIFICATION Spec
CONSTANTS
  s1 = s1
  s2 = s2
  base = base
  wide = wide
  unauthentic = unauthentic
  malformed = malformed
  Services = {s1, s2}
  Configs <- MixedConfigs
  ServicesOf <- MixedServices
  Valid = {base, wide, unauthentic}
  LimiterOK = {base, wide, unauthentic, malformed}
  AuthOK = {base, wide, malformed}
  Boot = base
  Main = Main
  Alt = Alt
  None = None
  MaxHistory = 2
  MaxOps = 2
  MaxEdits = 0
  MaxCrashes = 0
PROPERTY RolledBackMeansBack
