SPECIFICATION SpecR
CONSTANTS
  NoSelector = NoSelector
  Nil = Nil
  Handlers = {h1}
  Namespaces = {"a", "b"}
  UserAgents = {"mgr"}
  GRs <- MCDeployments
  Specs <- MCGrowingSpecs
  MaxUpdates = 2
  MaxRestarts = 1
INVARIANTS NoSpecMeansFirstStart
CHECK_DEADLOCK FALSE
