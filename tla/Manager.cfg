SPECIFICATION ManagerSpec
CONSTANTS
  MaxWrites = 3
  MaxFaults = 1
  Replicas = {"r1", "r2"}
  Missing = Missing
  MaxEdits = 1
  MaxErrors = 1
  Managers = {"m1", "m2"}
  Proxies = {"p1"}
  Nobody = Nobody
  MaxExits = 2
  Creations = {"c1", "c2"}
  Pods <- MCPods
  VApps <- MCVApps
  ExtraEnvs <- MCExtraEnvs
  PullSecrets <- MCPullSecrets
  ManagerSecrets = {"s1"}
  ImagesSet = TRUE
  MaxChanges = 1
  MaxFailures = 1
  Unset = Unset

  
  
PROPERTIES
  CAKept
  NoOlderWriter
  
  PartServed
  PartConverged
  PartPublished
  PartConnected
CHECK_DEADLOCK FALSE
