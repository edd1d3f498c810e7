SPECIFICATION Spec
CONSTANTS
  NoSelector = NoSelector
  Nil = Nil
  Handlers = {h1}
  Namespaces = {"a", "b"}
  UserAgents = {"mgr"}
  GRs <- MCDeployments
  Specs <- MCSelectorSpecs
  MaxUpdates = 2
  MaxRestarts = 0
INVARIANTS SelectorStable
CHECK_DEADLOCK FALSE
