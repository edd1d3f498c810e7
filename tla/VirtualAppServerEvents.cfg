SPECIFICATION FairSpec
CONSTANTS
  Pods = {1}
  Subsets = {"blue", "green"}
  InitLives = {"absent", "ready"}
  Leaders = {1}
  Nil = Nil
  MaxVersion = 2
  MaxConns = 1
  MaxEvents = 1
  MaxBreaks = 0
  MaxRestarts = 0

PROPERTIES EventuallyDistributed
CHECK_DEADLOCK FALSE
