SPECIFICATION FairSpec
CONSTANTS
  Pods = {1}
  Subsets = {"blue"}
  InitLives = {"running"}
  Leaders = {1}
  Nil = Nil
  MaxVersion = 2
  MaxConns = 2
  MaxEvents = 0
  MaxBreaks = 1
  MaxRestarts = 0

PROPERTIES EventuallyDistributed
CHECK_DEADLOCK FALSE
