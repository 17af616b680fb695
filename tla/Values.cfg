SPECIFICATION Spec
CONSTANTS
  n1 = n1
  host = host
  site = site
  other = other
  Name <- MCName
  Offer <- MCOffer
  Path <- MCPath
  Host <- MCHost
  Percent = {0, 50, 101}
  Status = {500, 600}
  Millis <- MCMillis
  None = None
  Star = Star
  EnvoyAdmin = EnvoyAdmin
  DefaultApp = DefaultApp
  CatchAll = CatchAll
  DefaultTimeout = 15000
CONSTRAINT Small
INVARIANTS
  TypeOK
  AcceptedIfDisciplined
  RoutesAsDocumented
  ListsAgree
  FaultsTakeEffect
PROPERTIES
  NeighboursKeepTraffic
  FaultIsolation
  GenerateRestores
