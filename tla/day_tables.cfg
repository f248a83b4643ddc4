SPECIFICATION Spec
CONSTANTS
  Nightly = {m1, m2}
  ByHand = {h1}
  ipv6 = ipv6
  ipv6_png = ipv6_png
  Pages <- SomePages
  Plots <- ThePlots
  Uses <- TheUses
  LastDay = 2
  MaxLoads = 1
  Scenarios <- AnyScenario
INVARIANTS
  TypeOK
  InstalledForDate
  PagesAgree
  PagesFresh
  TablesListed
PROPERTY MakesEnd
CHECK_DEADLOCK FALSE
