SPECIFICATION FairSpecR
CONSTANTS
  NoSelector = NoSelector
  Nil = Nil
  Handlers = {h1}
  Namespaces = {"a", "b"}
  UserAgents = {"mgr"}
  GRs <- MCDeployments
  Specs <- MCRestartSpecs
  MaxUpdates = 3
  MaxRestarts = 1
INVARIANTS NoNilSpec ElectionSubsetCurrent
CHECK_DEADLOCK FALSE
PROPERTIES UpdateSpecReturns
