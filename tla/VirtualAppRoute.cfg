SPECIFICATION Spec
CONSTANTS
  NoSelector = NoSelector
  Nil = Nil
  VirtualApps <- MCVirtualApps
  GRs <- MCGRs
  Namespaces = {"a", "b"}
  Labels = {"x", "y"}
  Pods <- MCPods
  MaxChanges = 3
INVARIANTS
  TypeOK
  RouteFresh
  OneEntryServes
  RedirectIsAccepted
CHECK_DEADLOCK FALSE
