SPECIFICATION Spec
CONSTANTS
  None = None
  CookieNames = {"login", "settings", "author"}
  Requests <- AllRequests
  Crowds <- TruePairs
  Configs <- SomeConfigs
  TTL = 1
  SharedLife = 2
  MaxClock = 2
INVARIANTS
  OwnPage
  PersonalNotShared
  OriginPrivateKept
  WithinTTL
  SharedOwnPage
