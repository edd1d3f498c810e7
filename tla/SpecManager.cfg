SPECIFICATION Spec
CONSTANTS
  NoSelector = NoSelector
  Nil = Nil
  Handlers = {h1, h2}
  Namespaces = {"a", "b"}
  UserAgents = {"mgr"}
  GRs <- MCDeployments
  Specs <- MCSpecs
  MaxUpdates = 3
  MaxRestarts = 0
INVARIANTS TypeOK HistoryAgrees ControllerViewStable ReadersHoldCurrent
PROPERTIES LoadKeepsIdentity  ViewPromise
SYMMETRY HandlerSymmetry
CHECK_DEADLOCK FALSE
