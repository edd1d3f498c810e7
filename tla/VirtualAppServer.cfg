SPECIFICATION FairSpec
CONSTANTS
  Pods = {1, 2}
  Subsets = {"blue"}
  InitLives = {"running"}
  Leaders = {1}
  Nil = Nil
  MaxVersion = 2
  MaxConns = 2
  MaxEvents = 0
  MaxBreaks = 0
  MaxRestarts = 0
INVARIANTS ExpectationMet
PROPERTIES DeletedStopFirst EventuallyDistributed EventuallyQuiet
CHECK_DEADLOCK FALSE
